---- MODULE Spec2Model ----
(***************************************************************************)
(* Node-data aggregation pipeline of the pNode dashboard:                  *)
(* src/server/api/pnodes.ts (fetchFromRpcAndCache, getClusterNodes and the *)
(* node mapping) with the fallback generator of                            *)
(* src/features/pnodes/services/utils.ts.                                  *)
(* Further sections: the query route src/app/api/pnode-data/route.ts, the  *)
(* derived metrics and the ingestion of src/verify_multi_node_stats.js,    *)
(* the credits cache of src/lib/pnode-api.ts and the ingest route.         *)
(*                                                                         *)
(* Strings that the code indexes (public keys) are sequences of character  *)
(* codes.  IP addresses are 4-tuples of octets, an "ip:port" address is    *)
(* the pair <<ip, port>>.  Coordinates are in units of 1/10000 degree.     *)
(* Time is in milliseconds, as Date.now().                                 *)
(***************************************************************************)
EXTENDS Integers, Sequences, FiniteSets, TLC

(***************************************************************************)
(* Bounds of the model.                                                    *)
(***************************************************************************)
\* longest cluster list drawn for the merge
MaxPods == 2
\* clock steps of the gate
MaxTicks == 2
\* requests started in one behaviour of the gate
MaxRequests == 2
\* longest node list drawn for the derived metrics
MaxNodes == 2
\* calls (of fetchPodCredits or of the fallback generator) made in one
\* behaviour of the cache
MaxCalls == 3

(***************************************************************************)
(* State.                                                                  *)
(*   now, ticks   the clock (Date.now()) and the number of its steps       *)
(*   store        the pnodes table: pubkey -> row                          *)
(*   lastWriter   the slot whose request wrote the store last (0: none)    *)
(*   started      number of getClusterNodes requests started               *)
(*   pc, req      position and locals of each request                      *)
(*   result       what each request resolved to                            *)
(*   minput, mout inputs and result of a function taken alone (the merge   *)
(*                in SpecMerge, a route handler or a metric elsewhere)     *)
(*   cache        the in-memory Map of getCached/setCache: key -> entry    *)
(*   calls        the fetchPodCredits calls: position, locals and result   *)
(*   flog         results of fallback-generator calls, in call order       *)
(***************************************************************************)
VARIABLES now, ticks, store, lastWriter, started, pc, req, result, minput, mout,
          cache, calls, flog

vars == << now, ticks, store, lastWriter, started, pc, req, result, minput, mout,
           cache, calls, flog >>
gateVars == << now, ticks, store, lastWriter, started, pc, req, result >>
cacheVars == << cache, calls, flog >>

(***************************************************************************)
(* Fallback generator: src/features/pnodes/services/utils.ts               *)
(***************************************************************************)
RECURSIVE hashFrom(_, _)
hashFrom(pubkey, i) ==
    IF i > Len(pubkey) THEN 0
    ELSE pubkey[i] * i + hashFrom(pubkey, i + 1)

\* reduce((acc, char, i) => acc + char.charCodeAt(0) * (i + 1), 0)
hashPubkey(pubkey) == hashFrom(pubkey, 1)

generateDeterministicIP(pubkey) ==
    LET hash == hashPubkey(pubkey)
    IN  << (hash % 200) + 50, (hash * 7) % 256, (hash * 13) % 256, (hash * 19) % 256 >>

NODE_LOCATIONS == <<
    [country |-> "United States", countryCode |-> "US", city |-> "New York", lat |-> 407128, lng |-> -740060],
    [country |-> "United States", countryCode |-> "US", city |-> "Los Angeles", lat |-> 340522, lng |-> -1182437],
    [country |-> "United States", countryCode |-> "US", city |-> "Chicago", lat |-> 418781, lng |-> -876298],
    [country |-> "United States", countryCode |-> "US", city |-> "Miami", lat |-> 257617, lng |-> -801918],
    [country |-> "United States", countryCode |-> "US", city |-> "Dallas", lat |-> 327767, lng |-> -967970],
    [country |-> "United States", countryCode |-> "US", city |-> "Seattle", lat |-> 476062, lng |-> -1223321],
    [country |-> "Germany", countryCode |-> "DE", city |-> "Frankfurt", lat |-> 501109, lng |-> 86821],
    [country |-> "Germany", countryCode |-> "DE", city |-> "Berlin", lat |-> 525200, lng |-> 134050],
    [country |-> "Germany", countryCode |-> "DE", city |-> "Munich", lat |-> 481351, lng |-> 115820],
    [country |-> "Netherlands", countryCode |-> "NL", city |-> "Amsterdam", lat |-> 523676, lng |-> 49041],
    [country |-> "United Kingdom", countryCode |-> "GB", city |-> "London", lat |-> 515074, lng |-> -1278],
    [country |-> "France", countryCode |-> "FR", city |-> "Paris", lat |-> 488566, lng |-> 23522],
    [country |-> "Japan", countryCode |-> "JP", city |-> "Tokyo", lat |-> 356762, lng |-> 1396503],
    [country |-> "Singapore", countryCode |-> "SG", city |-> "Singapore", lat |-> 13521, lng |-> 1038198],
    [country |-> "Australia", countryCode |-> "AU", city |-> "Sydney", lat |-> -338688, lng |-> 1512093],
    [country |-> "Canada", countryCode |-> "CA", city |-> "Toronto", lat |-> 436532, lng |-> -793832],
    [country |-> "Brazil", countryCode |-> "BR", city |-> "Sao Paulo", lat |-> -235505, lng |-> -466333],
    [country |-> "India", countryCode |-> "IN", city |-> "Mumbai", lat |-> 190760, lng |-> 728777],
    [country |-> "India", countryCode |-> "IN", city |-> "Bangalore", lat |-> 129716, lng |-> 775946],
    [country |-> "South Korea", countryCode |-> "KR", city |-> "Seoul", lat |-> 375665, lng |-> 1269780],
    [country |-> "Switzerland", countryCode |-> "CH", city |-> "Zurich", lat |-> 473769, lng |-> 85417],
    [country |-> "Ireland", countryCode |-> "IE", city |-> "Dublin", lat |-> 533498, lng |-> -62603],
    [country |-> "Poland", countryCode |-> "PL", city |-> "Warsaw", lat |-> 522297, lng |-> 210122],
    [country |-> "Finland", countryCode |-> "FI", city |-> "Helsinki", lat |-> 601699, lng |-> 249384],
    [country |-> "Sweden", countryCode |-> "SE", city |-> "Stockholm", lat |-> 593293, lng |-> 180686],
    [country |-> "Spain", countryCode |-> "ES", city |-> "Madrid", lat |-> 404168, lng |-> -37038],
    [country |-> "Italy", countryCode |-> "IT", city |-> "Milan", lat |-> 454642, lng |-> 91900],
    [country |-> "Hong Kong", countryCode |-> "HK", city |-> "Hong Kong", lat |-> 223193, lng |-> 1141694],
    [country |-> "UAE", countryCode |-> "AE", city |-> "Dubai", lat |-> 252048, lng |-> 552708],
    [country |-> "South Africa", countryCode |-> "ZA", city |-> "Cape Town", lat |-> -339249, lng |-> 184241] >>

DATACENTERS == <<
    "AWS US-East", "AWS US-West", "AWS EU-West", "AWS AP-Tokyo",
    "GCP US-Central", "GCP EU-West", "GCP Asia-East",
    "Hetzner FSN", "Hetzner HEL", "OVH FR", "OVH DE",
    "Contabo DE", "Contabo US", "DigitalOcean NYC", "DigitalOcean AMS",
    "Vultr", "Linode", "Azure EU", "Azure US" >>

ASNS == <<
    [asn |-> "AS24940", provider |-> "Hetzner"],
    [asn |-> "AS51167", provider |-> "Contabo"],
    [asn |-> "AS16509", provider |-> "Amazon"],
    [asn |-> "AS15169", provider |-> "Google"],
    [asn |-> "AS8075", provider |-> "Microsoft"],
    [asn |-> "AS16276", provider |-> "OVH"],
    [asn |-> "AS14061", provider |-> "DigitalOcean"],
    [asn |-> "AS20473", provider |-> "Vultr"] >>

\* the tables are indexed from the clock as well as from the key
getNodeLocation_ClockSeeded(pubkey, index) ==
    LET hash == hashPubkey(pubkey) + now
        location == NODE_LOCATIONS[((hash + index) % Len(NODE_LOCATIONS)) + 1]
    IN  [country |-> location.country, countryCode |-> location.countryCode,
         city |-> location.city, lat |-> location.lat, lng |-> location.lng,
         datacenter |-> DATACENTERS[((hash * 7 + index) % Len(DATACENTERS)) + 1],
         asn |-> ASNS[((hash * 13 + index) % Len(ASNS)) + 1].asn]

getNodeLocation(pubkey, index) ==
    LET hash == hashPubkey(pubkey)
        location == NODE_LOCATIONS[((hash + index) % Len(NODE_LOCATIONS)) + 1]
        datacenter == DATACENTERS[((hash * 7 + index) % Len(DATACENTERS)) + 1]
        asnData == ASNS[((hash * 13 + index) % Len(ASNS)) + 1]
    IN  [country |-> location.country, countryCode |-> location.countryCode,
         city |-> location.city, lat |-> location.lat, lng |-> location.lng,
         datacenter |-> datacenter, asn |-> asnData.asn]

(***************************************************************************)
(* JavaScript values used by the mapping.                                  *)
(***************************************************************************)
\* a cluster entry without last_seen_timestamp (the field is undefined)
NoTs == -1
\* geoBatch[ip] of an IP the batch does not hold (undefined)
NoGeo == [absent |-> TRUE]
\* a missing or empty string (falsy)
NoString == <<>>
\* fetchPodCredits() returned null
NullCredits == [isNull |-> TRUE]

\* new Date(ms).toISOString() and new Date(iso).getTime()
toISOString(ms) == [iso |-> ms]
getTime(s) == s.iso

\* the decimal digits of a non-negative integer, as character codes
RECURSIVE decimal(_)
decimal(n) == IF n < 10 THEN << 48 + n >> ELSE decimal(n \div 10) \o << 48 + (n % 10) >>

\* `unknown-${index}`
unknownKey(index) == << 117, 110, 107, 110, 111, 119, 110, 45 >> \o decimal(index)

\* address.split(':')[0]
splitColon0(address) == address[1]

(***************************************************************************)
(* JavaScript numbers that are not integers (scores, ratios).  A finite    *)
(* number is the fraction n/d, d > 0; a division by zero gives Infinity    *)
(* (positive dividend) or NaN (zero dividend), as `/` does in the code.    *)
(***************************************************************************)
RECURSIVE gcd(_, _)
gcd(a, b) == IF b = 0 THEN a ELSE gcd(b, a % b)

\* the fraction n/d in lowest terms
Q(n, d) ==
    LET g == gcd(IF n < 0 THEN 0 - n ELSE n, d)
    IN  [k |-> "num", n |-> n \div g, d |-> d \div g]
NaN == [k |-> "nan"]
Infinity == [k |-> "inf"]
Int2Q(n) == Q(n, 1)

\* a / b
qDiv(a, b) ==
    IF a = NaN \/ b = NaN THEN NaN
    ELSE IF a = Infinity THEN (IF b = Infinity THEN NaN ELSE Infinity)
    ELSE IF b = Infinity THEN Int2Q(0)
    ELSE IF b.n = 0 THEN (IF a.n = 0 THEN NaN ELSE Infinity)
    ELSE IF b.n > 0 THEN Q(a.n * b.d, a.d * b.n)
    ELSE Q(0 - a.n * b.d, 0 - a.d * b.n)

\* a * b, for b finite and positive or a finite
qMul(a, b) ==
    IF a = NaN \/ b = NaN THEN NaN
    ELSE IF a = Infinity \/ b = Infinity
         THEN (IF (a # Infinity /\ a.n = 0) \/ (b # Infinity /\ b.n = 0) THEN NaN ELSE Infinity)
    ELSE Q(a.n * b.n, a.d * b.d)

\* a + b
qAdd(a, b) ==
    IF a = NaN \/ b = NaN THEN NaN
    ELSE IF a = Infinity \/ b = Infinity THEN Infinity
    ELSE Q(a.n * b.d + b.n * a.d, a.d * b.d)

\* a - b, for b finite
qSub(a, b) ==
    IF a = NaN \/ b = NaN THEN NaN
    ELSE IF a = Infinity THEN Infinity
    ELSE Q(a.n * b.d - b.n * a.d, a.d * b.d)

\* a <= b; every comparison with NaN is false
qLe(a, b) ==
    IF a = NaN \/ b = NaN THEN FALSE
    ELSE IF b = Infinity THEN TRUE
    ELSE IF a = Infinity THEN FALSE
    ELSE a.n * b.d <= b.n * a.d

\* Math.min(a, b) and Math.max(a, b): NaN when an argument is NaN
MathMin(a, b) == IF a = NaN \/ b = NaN THEN NaN ELSE IF qLe(a, b) THEN a ELSE b
MathMax(a, b) == IF a = NaN \/ b = NaN THEN NaN ELSE IF qLe(a, b) THEN b ELSE a

\* a finite number between lo and hi
qWithin(a, lo, hi) == a # NaN /\ a # Infinity /\ qLe(Int2Q(lo), a) /\ qLe(a, Int2Q(hi))

\* array.reduce((acc, x) => acc + f(x), 0) over the numbers of a list
RECURSIVE qSumFrom(_, _)
qSumFrom(numbers, i) ==
    IF i > Len(numbers) THEN Int2Q(0)
    ELSE qAdd(numbers[i], qSumFrom(numbers, i + 1))

qSum(numbers) == qSumFrom(numbers, 1)

\* the same for integers
RECURSIVE sumFrom(_, _)
sumFrom(numbers, i) ==
    IF i > Len(numbers) THEN 0 ELSE numbers[i] + sumFrom(numbers, i + 1)

sum(numbers) == sumFrom(numbers, 1)

\* array.filter(test): the entries of `list` at the indices in `keep`, in order
RECURSIVE filterFrom(_, _, _)
filterFrom(list, keep, i) ==
    IF i > Len(list) THEN << >>
    ELSE IF i \in keep THEN << list[i] >> \o filterFrom(list, keep, i + 1)
    ELSE filterFrom(list, keep, i + 1)

onlineOf(nodes) ==
    filterFrom(nodes, {i \in 1..Len(nodes) : nodes[i].status = "online"}, 1)

\* utils.ts:10-15
getTier(score) ==
    IF qLe(Int2Q(80), score) THEN "excellent"
    ELSE IF qLe(Int2Q(60), score) THEN "good"
    ELSE IF qLe(Int2Q(30), score) THEN "fair"
    ELSE "poor"

\* pnodes.ts:85
MAX_CREDITS == 60000

\* the score taken without the upper limit
normalizedScore_Unclamped(credits) ==
    qMul(qDiv(Int2Q(credits), Int2Q(MAX_CREDITS)), Int2Q(100))

\* pnodes.ts:86: Math.min(100, (credits / MAX_CREDITS) * 100)
normalizedScore(credits) ==
    MathMin(Int2Q(100), qMul(qDiv(Int2Q(credits), Int2Q(MAX_CREDITS)), Int2Q(100)))

(***************************************************************************)
(* mapRpcNodeToPNode: src/server/api/pnodes.ts:77-151                      *)
(***************************************************************************)
\* lines 96-104, the branch of a record that is present: it is used whatever
\* its status says
geoLocation(geoData) ==
    [country |-> IF geoData.country # "" THEN geoData.country ELSE "Unknown",
     countryCode |-> IF geoData.countryCode # "" THEN geoData.countryCode ELSE "UN",
     city |-> IF geoData.city # "" THEN geoData.city ELSE "Unknown",
     lat |-> geoData.lat,
     lng |-> geoData.lon,
     datacenter |-> IF geoData.org # "" THEN geoData.org ELSE "Unknown",
     asn |-> IF geoData.as # << >> /\ geoData.as[1] # "" THEN geoData.as[1] ELSE "Unknown"]

\* mutant: a node without a geolocation record gets the 'Unknown' location
\* instead of a synthesized one
resolveLocation_NoFallback(geoData, pubkey, index) ==
    IF geoData # NoGeo THEN geoLocation(geoData)
    ELSE [country |-> "Unknown", countryCode |-> "UN", city |-> "Unknown",
          lat |-> 0, lng |-> 0, datacenter |-> "Unknown", asn |-> "Unknown"]

\* lines 96-104
resolveLocation(geoData, pubkey, index) ==
    IF geoData # NoGeo THEN geoLocation(geoData) ELSE getNodeLocation(pubkey, index)

\* lines 92-93: (Date.now() / 1000) - last_seen_timestamp < 300; with an
\* undefined timestamp the difference is NaN and the comparison is false
nodeStatus(rpcNode, nowMs) ==
    LET isOnline == /\ rpcNode.last_seen_timestamp # NoTs
                    /\ nowMs - rpcNode.last_seen_timestamp * 1000 < 300 * 1000
    IN  IF isOnline THEN "online" ELSE "offline"

\* line 120: new Date(NaN).toISOString() throws a RangeError
mapThrows(rpcNode) == rpcNode.last_seen_timestamp = NoTs

mapRpcNodeToPNode(rpcNode, creditData, index, geoData, nowMs) ==
    LET pubkey == IF rpcNode.pubkey # NoString THEN rpcNode.pubkey ELSE unknownKey(index)
        ip == IF rpcNode.address # NoString THEN splitColon0(rpcNode.address)
              ELSE generateDeterministicIP(pubkey)
    IN  [id |-> << "pnode_", index >>,
         pubkey |-> pubkey,
         ip |-> ip,
         status |-> nodeStatus(rpcNode, nowMs),
         lastSeen |-> toISOString(rpcNode.last_seen_timestamp * 1000),
         location |-> resolveLocation(geoData, pubkey, index),
         credits |-> creditData.credits,
         creditsRank |-> index + 1,
         performance |-> [score |-> normalizedScore(creditData.credits),
                          tier |-> getTier(normalizedScore(creditData.credits))]]

\* src/server/api/pnodes.ts:157-176
mapPNodeToRow(node, nowMs) ==
    [pubkey |-> node.pubkey, ip |-> node.ip, status |-> node.status,
     last_seen |-> node.lastSeen, location |-> node.location,
     performance |-> node.performance,
     credits |-> node.credits, credits_rank |-> node.creditsRank,
     updated_at |-> toISOString(nowMs)]

\* src/server/api/pnodes.ts:179-198
mapRowToPNode(row) ==
    [id |-> << "pnode_", row.credits_rank >>,
     pubkey |-> row.pubkey, ip |-> row.ip, status |-> row.status,
     lastSeen |-> row.last_seen, location |-> row.location,
     performance |-> row.performance,
     credits |-> row.credits, creditsRank |-> row.credits_rank]

(***************************************************************************)
(* fetchFromRpcAndCache, the merge: src/server/api/pnodes.ts:212-241       *)
(***************************************************************************)
Localhost == << 127, 0, 0, 1 >>

\* line 212-216: (rpcResponse)?.pods || rpcResponse || [], then Array.isArray.
\* An array is truthy also when it is empty.
rpcPodsOf(rpcResponse) ==
    CASE rpcResponse.shape = "withPods" -> [isArray |-> TRUE, items |-> rpcResponse.pods]
      [] rpcResponse.shape = "array"    -> [isArray |-> TRUE, items |-> rpcResponse.pods]
      [] rpcResponse.shape = "null"     -> [isArray |-> TRUE, items |-> <<>>]
      [] OTHER                          -> [isArray |-> FALSE, items |-> <<>>]

\* pod.address?.split(':')[0]
podIp(pod) == IF pod.address # NoString THEN splitColon0(pod.address) ELSE NoString

\* lines 218-220
ipsToFetch(rpcPods) ==
    LET ips == [i \in 1..Len(rpcPods) |-> podIp(rpcPods[i])]
    IN  SelectSeq(ips, LAMBDA ip : ip # NoString /\ ip # Localhost)

\* lines 223-226: a Map filled in ledger order, a later entry replaces an earlier
RECURSIVE creditMapFrom(_, _)
creditMapFrom(entries, i) ==
    IF i = 0 THEN << >>
    ELSE LET before == creditMapFrom(entries, i - 1)
             e == entries[i]
         IN  [k \in DOMAIN before \cup {e.pod_id} |->
                 IF k = e.pod_id THEN e.credits ELSE before[k]]

creditMapOf(podCredits) ==
    IF podCredits = NullCredits THEN << >>
    ELSE creditMapFrom(podCredits.pods_credits, Len(podCredits.pods_credits))

\* line 230: creditMap.get(rpcNode.pubkey) || 0
creditsOf(creditMap, pubkey) ==
    IF pubkey \in DOMAIN creditMap THEN creditMap[pubkey] ELSE 0

\* line 231: ip ? geoBatch[ip] : undefined
geoOf(geoBatch, ip) ==
    IF ip # NoString /\ ip \in DOMAIN geoBatch THEN geoBatch[ip] ELSE NoGeo

\* lines 228-233
mappedNodes(rpcPods, creditMap, geoBatch, nowMs) ==
    [i \in 1..Len(rpcPods) |->
        mapRpcNodeToPNode(rpcPods[i],
                          [credits |-> creditsOf(creditMap, rpcPods[i].pubkey)],
                          i - 1,
                          geoOf(geoBatch, podIp(rpcPods[i])),
                          nowMs)]

\* Array.prototype.sort is stable: x goes behind every element that does not
\* compare after it
RECURSIVE insertByCredits(_, _)
insertByCredits(sorted, x) ==
    IF sorted = << >> THEN << x >>
    ELSE IF Head(sorted).credits >= x.credits
         THEN << Head(sorted) >> \o insertByCredits(Tail(sorted), x)
         ELSE << x >> \o sorted

RECURSIVE sortFrom(_, _)
sortFrom(nodes, i) ==
    IF i = 0 THEN << >> ELSE insertByCredits(sortFrom(nodes, i - 1), nodes[i])

\* line 235: sort((a, b) => (b.credits || 0) - (a.credits || 0))
sortByCredits(nodes) == sortFrom(nodes, Len(nodes))

\* line 238: Array.from(new Map(sorted.map(item => [item.pubkey, item])).values()):
\* a key keeps the place of its first entry and the value of its last
uniqueNodes(sorted) ==
    LET n == Len(sorted)
        first == SelectSeq([i \in 1..n |-> i],
                           LAMBDA i : \A j \in 1..(i - 1) : sorted[j].pubkey # sorted[i].pubkey)
        lastOf(k) == CHOOSE i \in 1..n :
                        /\ sorted[i].pubkey = k
                        /\ \A j \in (i + 1)..n : sorted[j].pubkey # k
    IN  [m \in 1..Len(first) |-> sorted[lastOf(sorted[first[m]].pubkey)]]

\* line 241
rowsOf(nodes, nowMs) == [i \in 1..Len(nodes) |-> mapPNodeToRow(nodes[i], nowMs)]

\* The merge of one refresh: threw is the exception of the mapping (caught at
\* line 251), sorted the list of line 235/249, rows the rows of line 241.
mergeOf(rpcResponse, podCredits, geoBatch, nowMs) ==
    LET rpcPods == rpcPodsOf(rpcResponse)
        throws == \E i \in 1..Len(rpcPods.items) : mapThrows(rpcPods.items[i])
        sorted == IF rpcPods.isArray /\ ~throws
                  THEN sortByCredits(mappedNodes(rpcPods.items, creditMapOf(podCredits),
                                                 geoBatch, nowMs))
                  ELSE << >>
    IN  [invalid |-> ~rpcPods.isArray,
         threw |-> rpcPods.isArray /\ throws,
         sorted |-> sorted,
         rows |-> rowsOf(uniqueNodes(sorted), nowMs)]

(***************************************************************************)
(* Inputs: what the adapters can return.                                   *)
(***************************************************************************)
KeyA == << 65 >>
KeyB == << 66 >>
Keys == {KeyA, KeyB}
Ip1 == << 10, 0, 0, 1 >>
Epoch0 == 1000 * 1000
\* seen 299 s and 300 s before Epoch0
TsRecent == Epoch0 \div 1000 - 299
TsOld == Epoch0 \div 1000 - 300
CreditValues == {0, 100, 9000}
\* credits above it mean 'online' in the credit heuristic
CreditOnlineThreshold == 5000

GeoSuccess(ip) ==
    [status |-> "success", query |-> ip, country |-> "Germany", countryCode |-> "DE",
     city |-> "Berlin", lat |-> 525200, lon |-> 134050, org |-> "Hetzner Online GmbH",
     as |-> << "AS24940", "Hetzner", "Online", "GmbH" >>]
\* what ip-api.com returns for an address it cannot resolve
GeoFail(ip) ==
    [status |-> "fail", query |-> ip, country |-> "", countryCode |-> "",
     city |-> "", lat |-> 0, lon |-> 0, org |-> "", as |-> << >>]

Pods(keys, addresses, stamps) ==
    {[pubkey |-> k, address |-> a, last_seen_timestamp |-> t] :
        k \in keys, a \in addresses, t \in stamps}

ListsUpTo(S, n) == UNION {[1..m -> S] : m \in 0..n}

\* credit balances at both sides of the tier limits and of MAX_CREDITS
TierCredits == {17999, 18000, 35999, 36000, 47999, 48000, 60000, 60001}

\* ledgers: null, or one entry for each key of a subset of the keys
Ledgers ==
    {NullCredits} \cup
    {[pods_credits |-> << [pod_id |-> KeyA, credits |-> c] >>] : c \in TierCredits} \cup
    {[pods_credits |-> s] : s \in
        {<< >>} \cup {<< [pod_id |-> k, credits |-> c] >> : k \in Keys, c \in CreditValues}
        \cup {<< [pod_id |-> KeyA, credits |-> c], [pod_id |-> KeyB, credits |-> d] >> :
                c \in CreditValues, d \in CreditValues}}

\* results of fetchBatchGeolocation(ips): a record for some of the asked IPs
GeoBatches(ips) ==
    LET asked == {ips[i] : i \in 1..Len(ips)}
    IN  UNION {[S -> {"success", "fail"}] : S \in SUBSET asked}

geoBatchOf(choice) ==
    [ip \in DOMAIN choice |-> IF choice[ip] = "success" THEN GeoSuccess(ip) ELSE GeoFail(ip)]

\* results of the cluster adapter: getPodsWithStats or its getPods fallback
\* answered (an object with pods, a bare array, null, another object), or both
\* calls failed
RpcResults(pods, n) ==
    {[failed |-> FALSE, shape |-> "withPods", pods |-> l] : l \in ListsUpTo(pods, n)}
    \cup {[failed |-> FALSE, shape |-> "array", pods |-> l] : l \in ListsUpTo(pods, 1)}
    \cup {[failed |-> FALSE, shape |-> sh, pods |-> << >>] : sh \in {"null", "object"}}
    \cup {[failed |-> TRUE, shape |-> "null", pods |-> << >>]}

(***************************************************************************)
(* The merge taken alone: fetchFromRpcAndCache as a function of what the   *)
(* adapters returned (the store write does not change its result).         *)
(***************************************************************************)
NotRun == [run |-> FALSE]

MergePods == Pods(Keys \cup {NoString},
                  {NoString, << Ip1, 9001 >>, << Localhost, 9001 >>},
                  {NoTs, TsRecent, TsOld})

\* lines 202-216 and 249-254: the list the refresh resolves to
refreshResult(rpc, podCredits, geoBatch, nowMs) ==
    IF rpc.failed THEN << >>
    ELSE mergeOf(rpc, podCredits, geoBatch, nowMs).sorted

GateInit ==
    /\ now = Epoch0
    /\ ticks = 0
    /\ store = << >>
    /\ lastWriter = 0
    /\ started = 0
    /\ pc = [p \in {1, 2} |-> "idle"]
    /\ req = [p \in {1, 2} |-> NotRun]
    /\ result = [p \in {1, 2} |-> NotRun]

\* no entry cached, no credits call started, no fallback call made
CacheInit ==
    /\ cache = << >>
    /\ calls = << >>
    /\ flog = << >>

InitMerge ==
    /\ GateInit
    /\ CacheInit
    /\ \E rpc \in RpcResults(MergePods, MaxPods), podCredits \in Ledgers :
         \E choice \in GeoBatches(ipsToFetch(rpcPodsOf(rpc).items)) :
            minput = [rpc |-> rpc, podCredits |-> podCredits,
                      geoBatch |-> geoBatchOf(choice), nowMs |-> Epoch0]
    /\ mout = NotRun

ApplyMerge ==
    /\ mout = NotRun
    /\ mout' = [run |-> TRUE,
                nodes |-> refreshResult(minput.rpc, minput.podCredits,
                                        minput.geoBatch, minput.nowMs)]
    /\ UNCHANGED << gateVars, minput, cacheVars >>

NextMerge == ApplyMerge

SpecMerge == InitMerge /\ [][NextMerge]_vars

(***************************************************************************)
(* The merge taken alone: claims C1, C2, C8, C9, C10 (SpecMerge).          *)
(***************************************************************************)
\* the cluster list and the ledger entries the refresh was given
clusterList == IF minput.rpc.failed THEN << >> ELSE rpcPodsOf(minput.rpc).items
ledgerEntries ==
    IF minput.podCredits = NullCredits THEN << >> ELSE minput.podCredits.pods_credits
\* the ordinal index of a returned node: id is `pnode_${index}`
indexOf(node) == node.id[2]

\* C1: the list the refresh returns, read in list order, has creditsRank
\* 1, 2, ..., N, and a node of larger rank never has more credits than a node
\* of smaller rank.
C1_RankInvariant ==
    mout.run =>
        /\ \A i \in 1..Len(mout.nodes) : mout.nodes[i].creditsRank = i
        /\ \A i, j \in 1..Len(mout.nodes) :
              mout.nodes[i].creditsRank > mout.nodes[j].creditsRank
                 => mout.nodes[i].credits <= mout.nodes[j].credits

\* C2: every public key of the cluster list or of the credit ledger occurs
\* exactly once in the list the refresh returns (stated for cluster lists
\* whose entries all carry a last-seen timestamp, which the mapping maps).
C2_MergeCompleteness ==
    (mout.run /\ \A i \in 1..Len(clusterList) : ~mapThrows(clusterList[i])) =>
        \A k \in {clusterList[i].pubkey : i \in 1..Len(clusterList)}
                 \cup {ledgerEntries[i].pod_id : i \in 1..Len(ledgerEntries)} :
            k # NoString =>
               Cardinality({i \in 1..Len(mout.nodes) : mout.nodes[i].pubkey = k}) = 1

\* C8: when the geolocation adapter returned the empty map, every returned
\* node has the synthesized location getNodeLocation(pubkey, index).
C8_SynthesizedWhenGeoEmpty ==
    (mout.run /\ DOMAIN minput.geoBatch = {}) =>
        \A i \in 1..Len(mout.nodes) :
            mout.nodes[i].location
                = getNodeLocation(mout.nodes[i].pubkey, indexOf(mout.nodes[i]))

\* C8 witness: the adapter was asked for the IP of a node and returned nothing;
\* two nodes are returned, one of them with that IP and its index not 0.
C8_Witness ==
    /\ mout.run
    /\ DOMAIN minput.geoBatch = {}
    /\ Len(mout.nodes) = 2
    /\ \E i \in 1..2 : mout.nodes[i].ip = Ip1 /\ indexOf(mout.nodes[i]) = 1

\* C9: a node whose geolocation record reports status 'fail' gets the
\* synthesized location, never one built from the failed record.
C9_FailedLookupSynthesized ==
    mout.run =>
        \A i \in 1..Len(mout.nodes) :
            LET node == mout.nodes[i]
                geo == geoOf(minput.geoBatch, node.ip)
            IN  (geo # NoGeo /\ geo.status = "fail")
                   => node.location = getNodeLocation(node.pubkey, indexOf(node))

\* the status C10 states for a cluster entry
claimedStatus(rpcNode, credits, nowMs) ==
    IF rpcNode.last_seen_timestamp # NoTs
    THEN IF nowMs - rpcNode.last_seen_timestamp * 1000 < 300 * 1000
         THEN "online" ELSE "offline"
    ELSE IF credits > CreditOnlineThreshold THEN "online"
         ELSE IF credits > 0 THEN "degraded" ELSE "offline"

\* C10: every entry of the cluster list is returned as a node whose status is
\* 'online' exactly when it was seen less than 300 s ago, and, when it has no
\* last-seen timestamp, is taken from its credits.
C10_StatusRule ==
    (mout.run /\ ~minput.rpc.failed /\ rpcPodsOf(minput.rpc).isArray) =>
        \A i \in 1..Len(clusterList) :
            \E j \in 1..Len(mout.nodes) :
                /\ indexOf(mout.nodes[j]) = i - 1
                /\ mout.nodes[j].status
                      = claimedStatus(clusterList[i],
                                      creditsOf(creditMapOf(minput.podCredits),
                                                clusterList[i].pubkey),
                                      minput.nowMs)

\* C16: for every non-negative credit balance the refresh sets
\* performance.score = min(100, credits / 60000 * 100), never above 100, and
\* performance.tier is excellent from 80, good from 60, fair from 30 and
\* poor below.
C16_ScoreAndTier ==
    mout.run =>
        \A i \in 1..Len(mout.nodes) :
            LET c == mout.nodes[i].credits
                score == mout.nodes[i].performance.score
            IN  /\ score.k = "num" /\ score.n <= 100 * score.d
                /\ score.n * 600 = (IF c > 60000 THEN 60000 ELSE c) * score.d
                /\ mout.nodes[i].performance.tier
                      = (IF c * 100 >= 80 * 60000 THEN "excellent"
                         ELSE IF c * 100 >= 60 * 60000 THEN "good"
                         ELSE IF c * 100 >= 30 * 60000 THEN "fair"
                         ELSE "poor")

C16_Witness ==
    /\ mout.run
    /\ Len(mout.nodes) = 2
    /\ mout.nodes[1].credits = 60001
    /\ mout.nodes[1].performance = [score |-> Int2Q(100), tier |-> "excellent"]
    /\ mout.nodes[2].performance.tier = "poor"

\* C17: when several cluster entries carry the same public key, the refresh
\* keeps for that key the entry with the greatest last-seen timestamp,
\* whatever the order of the entries, in the list it returns and in the rows
\* it stores.
C17_KeepMostRecent ==
    (mout.run /\ \A i \in 1..Len(clusterList) : ~mapThrows(clusterList[i])) =>
        LET m == mergeOf(minput.rpc, minput.podCredits, minput.geoBatch, minput.nowMs)
            newest(k) == toISOString(1000 * (CHOOSE t \in {clusterList[i].last_seen_timestamp :
                                                  i \in {j \in 1..Len(clusterList) :
                                                            clusterList[j].pubkey = k}} :
                                          \A i \in 1..Len(clusterList) :
                                              clusterList[i].pubkey = k
                                                  => clusterList[i].last_seen_timestamp <= t))
        IN  /\ \A i \in 1..Len(mout.nodes) :
                  mout.nodes[i].pubkey \in Keys
                      => mout.nodes[i].lastSeen = newest(mout.nodes[i].pubkey)
            /\ \A i \in 1..Len(m.rows) :
                  m.rows[i].pubkey \in Keys
                      => m.rows[i].last_seen = newest(m.rows[i].pubkey)

(***************************************************************************)
(* getClusterNodes and the store: src/server/api/pnodes.ts:240-247, 257-307*)
(***************************************************************************)
Procs == {1, 2}

PodA == [pubkey |-> KeyA, address |-> << Ip1, 9001 >>, last_seen_timestamp |-> TsRecent]
PodB == [pubkey |-> KeyB, address |-> << Ip1, 9001 >>, last_seen_timestamp |-> TsRecent]
PodNoTs == [pubkey |-> KeyB, address |-> NoString, last_seen_timestamp |-> NoTs]

\* the cluster adapter answered with its pods, with another object, or failed
GateRpcResults ==
    {[failed |-> FALSE, shape |-> "withPods", pods |-> l] :
        l \in {<< >>, << PodA >>, << PodA, PodB >>, << PodNoTs >>}}
    \cup {[failed |-> FALSE, shape |-> "object", pods |-> << >>],
          [failed |-> TRUE, shape |-> "null", pods |-> << >>]}

GateLedgers ==
    {NullCredits,
     [pods_credits |-> << [pod_id |-> KeyA, credits |-> 9000],
                          [pod_id |-> KeyB, credits |-> 100] >>]}

\* at the gate the geolocation adapter resolves nothing (line 73: it returns {}
\* on every failure); its records are drawn for the merge taken alone
GateGeoBatches(ips) ==
    {choice \in GeoBatches(ips) : DOMAIN choice = {}}

RowSet(table) == {table[k] : k \in DOMAIN table}
Range(seq) == {seq[i] : i \in 1..Len(seq)}

\* .select('*').order('credits', { ascending: false }): every order of the
\* rows that is descending in credits (rows of equal credits come in any order)
orderedReads(table) ==
    LET rows == RowSet(table)
        n == Cardinality(rows)
    IN  {l \in [1..n -> rows] :
            /\ \A i, j \in 1..n : i # j => l[i] # l[j]
            /\ \A i \in 1..(n - 1) : l[i].credits >= l[i + 1].credits}

\* mutant: the freshness window is CACHE_DURATION (60 s) of config.ts
isStale_CacheDuration(cachedNodes, nowMs) ==
    nowMs - getTime(cachedNodes[1].updated_at) > 60000

\* lines 267-269
isStale(cachedNodes, nowMs) ==
    LET oldestUpdate == getTime(cachedNodes[1].updated_at)
    IN  (nowMs - oldestUpdate) > 5 * 60 * 1000

\* mutant: no catch around the store read, the exception leaves the handler
afterReadThrow_Uncaught == "rejected"

\* lines 303-306: the catch of getClusterNodes starts a refresh
afterReadThrow == "fetch"

\* lines 265-301: "cache" serves the rows read, "fetch" starts a refresh
afterRead(outcome, cachedNodes, nowMs) ==
    CASE outcome = "throw" -> afterReadThrow
      [] outcome = "error" -> "fetch"
      [] Len(cachedNodes) = 0 -> "fetch"
      [] isStale(cachedNodes, nowMs) -> "fetch"
      [] OTHER -> "cache"

\* .upsert(rows, { onConflict: 'pubkey' }): one statement; a row replaces the
\* stored row of its pubkey, every other stored row stays
upsertInto(table, rows) ==
    LET written == {rows[i].pubkey : i \in 1..Len(rows)}
    IN  [k \in DOMAIN table \cup written |->
            IF k \in written
            THEN (CHOOSE r \in Range(rows) : r.pubkey = k)
            ELSE table[k]]

\* mutant: a failed store write makes the refresh return nothing
upsertReturn_EmptyOnError(outcome, sorted) ==
    IF outcome = "error" THEN << >> ELSE sorted

\* lines 244-249: the error of the write is logged, sorted is returned
upsertReturn(outcome, sorted) == sorted

Resolved(nodes) == [run |-> TRUE, nodes |-> nodes]

InRefresh(state) == state \in {"fetch", "geo", "upsert"}

\* a snapshot has one update timestamp when all its rows carry the same one;
\* "younger": it is one millisecond younger than the 5 minutes, "older": one
\* millisecond older
boundaryOf(cachedNodes, nowMs) ==
    IF /\ Len(cachedNodes) > 0
       /\ \A i \in 1..Len(cachedNodes) : cachedNodes[i].updated_at = cachedNodes[1].updated_at
    THEN CASE nowMs - getTime(cachedNodes[1].updated_at) = 5 * 60 * 1000 - 1 -> "younger"
           [] nowMs - getTime(cachedNodes[1].updated_at) = 5 * 60 * 1000 + 1 -> "older"
           [] OTHER -> "none"
    ELSE "none"

FreshReq ==
    [run |-> TRUE, read |-> "none", cached |-> << >>, boundary |-> "none",
     fetched |-> FALSE, rpcFailed |-> FALSE, creditsNull |-> FALSE,
     rpc |-> NotRun, podCredits |-> NullCredits,
     merged |-> FALSE, sorted |-> << >>, rows |-> << >>,
     write |-> "none", wrote |-> FALSE, overlapped |-> FALSE]

\* getClusterNodes up to the end of its store read (lines 259-301).  A slot
\* takes its next request when the last one has resolved; slot 2 takes the
\* requests that arrive while the request of slot 1 is refreshing.
ReadStore(p) ==
    /\ pc[p] \in {"idle", "done"}
    /\ p = 2 => InRefresh(pc[1])
    /\ started < MaxRequests
    /\ started' = started + 1
    /\ \E outcome \in {"ok", "error", "throw"} :
       \E cachedNodes \in IF outcome = "ok" THEN orderedReads(store) ELSE {<< >>} :
          LET next == afterRead(outcome, cachedNodes, now)
              other == CHOOSE q \in Procs : q # p
              meet == next = "fetch" /\ InRefresh(pc[other])
          IN  /\ pc' = [pc EXCEPT ![p] = IF next = "cache" THEN "done" ELSE next]
              /\ result' = [result EXCEPT ![p] =
                    IF next = "cache"
                    THEN Resolved([i \in 1..Len(cachedNodes) |-> mapRowToPNode(cachedNodes[i])])
                    ELSE NotRun]
              /\ req' = [q \in Procs |->
                    IF q = p
                    THEN [FreshReq EXCEPT !.read = IF outcome = "ok" THEN "ok" ELSE "failed",
                                          !.cached = IF next = "cache" THEN cachedNodes ELSE << >>,
                                          !.boundary = boundaryOf(cachedNodes, now),
                                          !.overlapped = meet]
                    ELSE IF meet THEN [req[q] EXCEPT !.overlapped = TRUE] ELSE req[q]]
    /\ lastWriter' = IF lastWriter = p THEN 0 ELSE lastWriter
    /\ UNCHANGED << now, ticks, store, minput, mout, cacheVars >>

\* fetchFromRpcAndCache, lines 203-216: both adapters have answered
FetchAdapters(p) ==
    /\ pc[p] = "fetch"
    /\ \E rpc \in GateRpcResults, podCredits \in GateLedgers :
          LET ends == rpc.failed \/ ~rpcPodsOf(rpc).isArray
          IN  /\ req' = [req EXCEPT ![p].fetched = TRUE,
                                    ![p].rpcFailed = rpc.failed,
                                    ![p].creditsNull = (podCredits = NullCredits),
                                    ![p].rpc = IF ends THEN NotRun ELSE rpc,
                                    ![p].podCredits = IF ends THEN NullCredits ELSE podCredits]
              /\ pc' = [pc EXCEPT ![p] = IF ends THEN "done" ELSE "geo"]
              /\ result' = [result EXCEPT ![p] = IF ends THEN Resolved(<< >>) ELSE NotRun]
    /\ UNCHANGED << now, ticks, store, lastWriter, started, minput, mout, cacheVars >>

\* lines 218-243: the geolocation batch has answered; map, sort, deduplicate
FetchGeo(p) ==
    /\ pc[p] = "geo"
    /\ \E choice \in GateGeoBatches(ipsToFetch(rpcPodsOf(req[p].rpc).items)) :
          LET m == mergeOf(req[p].rpc, req[p].podCredits, geoBatchOf(choice), now)
              ends == m.threw \/ Len(m.rows) = 0
          IN  /\ req' = [req EXCEPT ![p].merged = TRUE,
                                    ![p].rpc = NotRun, ![p].podCredits = NullCredits,
                                    ![p].sorted = m.sorted, ![p].rows = m.rows]
              /\ pc' = [pc EXCEPT ![p] = IF ends THEN "done" ELSE "upsert"]
              /\ result' = [result EXCEPT ![p] = IF ends THEN Resolved(m.sorted) ELSE NotRun]
    /\ UNCHANGED << now, ticks, store, lastWriter, started, minput, mout, cacheVars >>

\* lines 244-249: the upsert has answered
Upsert(p) ==
    /\ pc[p] = "upsert"
    /\ \E outcome \in {"ok", "error"} :
          /\ store' = IF outcome = "ok" THEN upsertInto(store, req[p].rows) ELSE store
          /\ lastWriter' = IF outcome = "ok" THEN p ELSE lastWriter
          /\ req' = [req EXCEPT ![p].write = outcome, ![p].wrote = (outcome = "ok")]
          /\ result' = [result EXCEPT ![p] = Resolved(upsertReturn(outcome, req[p].sorted))]
    /\ pc' = [pc EXCEPT ![p] = "done"]
    /\ UNCHANGED << now, ticks, started, minput, mout, cacheVars >>

\* the clock steps to one millisecond before the 5 minutes, to one millisecond
\* after them, then by milliseconds
Tick ==
    /\ ticks < MaxTicks
    /\ ticks' = ticks + 1
    /\ now' = now + (CASE ticks = 0 -> 5 * 60 * 1000 - 1
                       [] ticks = 1 -> 2
                       [] OTHER -> 1)
    /\ UNCHANGED << store, lastWriter, started, pc, req, result, minput, mout, cacheVars >>

\* the store is empty, or holds the snapshot a refresh wrote at Epoch0
InitialStores ==
    {<< >>,
     upsertInto(<< >>,
                mergeOf([failed |-> FALSE, shape |-> "withPods", pods |-> << PodA, PodB >>],
                        NullCredits, << >>, Epoch0).rows)}

Init ==
    /\ now = Epoch0
    /\ ticks = 0
    /\ store \in InitialStores
    /\ lastWriter = 0
    /\ started = 0
    /\ pc = [p \in Procs |-> "idle"]
    /\ req = [p \in Procs |-> NotRun]
    /\ result = [p \in Procs |-> NotRun]
    /\ minput = NotRun
    /\ mout = NotRun
    /\ CacheInit

Next ==
    \/ \E p \in Procs : ReadStore(p)
    \/ \E p \in Procs : FetchAdapters(p)
    \/ \E p \in Procs : FetchGeo(p)
    \/ \E p \in Procs : Upsert(p)
    \/ Tick

Spec == Init /\ [][Next]_vars

(***************************************************************************)
(* The gate and the store: claims C3 to C7 (Spec).                         *)
(***************************************************************************)
servedRows(p) == Resolved([i \in 1..Len(req[p].cached) |-> mapRowToPNode(req[p].cached[i])])

\* C3: a request that read a non-empty snapshot one millisecond younger than
\* the 5 minutes resolves to the stored rows with no adapter call and no store
\* write; one that read a snapshot one millisecond older runs a refresh
\* before it resolves.
C3_StalenessBoundary ==
    \A p \in Procs :
        (pc[p] # "idle" /\ req[p].read = "ok") =>
            /\ req[p].boundary = "younger" =>
                  /\ pc[p] = "done"
                  /\ Len(req[p].cached) > 0
                  /\ result[p] = servedRows(p)
                  /\ ~req[p].fetched /\ req[p].write = "none" /\ ~req[p].wrote
            /\ req[p].boundary = "older" =>
                  /\ InRefresh(pc[p]) \/ pc[p] = "done"
                  /\ pc[p] = "done" => req[p].fetched

\* C3 witness: a request was served two rows from a snapshot one millisecond
\* younger than the 5 minutes.
C3_Witness ==
    \E p \in Procs :
        /\ pc[p] = "done"
        /\ req[p].boundary = "younger"
        /\ Len(result[p].nodes) = 2
        /\ ~req[p].fetched

\* C4: once a refresh has completed its store write, the store holds exactly
\* the node set of that refresh's merged result.
C4_FullReplacement ==
    lastWriter # 0 => RowSet(store) = Range(req[lastWriter].rows)

keysOf(rows) == {rows[i].pubkey : i \in 1..Len(rows)}

\* C5: when two overlapping refreshes of different cluster lists have both
\* written, the store equals the complete row set written by one of them.
C5_ConcurrentRefresh ==
    ( /\ pc[1] = "done" /\ pc[2] = "done"
      /\ req[1].wrote /\ req[2].wrote
      /\ req[1].overlapped /\ req[2].overlapped
      /\ keysOf(req[1].rows) # keysOf(req[2].rows) )
    => RowSet(store) \in {Range(req[1].rows), Range(req[2].rows)}

\* C6: getClusterNodes never rejects: every request resolves to a list, for
\* every combination of adapter and store failures, and to the empty list
\* when the store read, the cluster adapter and the credits adapter all failed.
C6_NoHardFailure ==
    \A p \in Procs :
        /\ pc[p] \in {"idle", "fetch", "geo", "upsert", "done"}
        /\ pc[p] = "done" =>
              /\ result[p].run
              /\ (req[p].read = "failed" /\ req[p].rpcFailed /\ req[p].creditsNull)
                    => result[p].nodes = << >>

\* C6 witness: the store read, the cluster adapter and the credits adapter
\* failed in one request, which resolved to the empty list.
C6_Witness ==
    \E p \in Procs :
        /\ pc[p] = "done"
        /\ req[p].read = "failed" /\ req[p].rpcFailed /\ req[p].creditsNull
        /\ result[p] = Resolved(<< >>)

NoParam == [absent |-> TRUE]
\* a parameter present in the query string with text `value`
Param(value) == [absent |-> FALSE, value |-> value]

\* the case labels of the switch, lines 21-86
RouteTypes ==
    {"network-stats", "network-tps", "network-events", "performance-history",
     "gossip-health", "storage-distribution", "epoch-info", "epoch-history",
     "staking-stats", "commission-history", "slashing-events", "exabyte-projection",
     "decentralization-metrics", "version-distribution", "health-score-breakdown",
     "trend-data", "x-score", "peer-rankings", "superminority-info",
     "censorship-resistance"}

\* !value of a query parameter: null and the empty string are falsy
falsyParam(param) == param = NoParam \/ param.value = ""

\* the switch reaches a case label, not the default of lines 89-90
knownType(type) == type # NoParam /\ type.value \in RouteTypes

\* NextResponse.json(body, { status })
jsonResponse(status, body) == [status |-> status, body |-> body]

\* lines 93-96: error.message || 'Internal Server Error'
routeCatch(error) ==
    jsonResponse(500, [error |-> IF error.message = "" THEN "Internal Server Error"
                                 ELSE error.message])

\* lines 14-97
GET(type, nodeId, outcome) ==
    IF ~knownType(type)
    THEN jsonResponse(400, [error |-> "Invalid type param"])
    ELSE IF type.value = "commission-history" /\ falsyParam(nodeId)
    THEN routeCatch([message |-> "nodeId required"])
    ELSE IF outcome.threw
    THEN routeCatch(outcome.error)
    ELSE jsonResponse(200, [data |-> type.value])

\* what a metric function does: returns, throws an Error with a message of
\* its own, or throws a value without a message
MetricOutcomes ==
    {[threw |-> FALSE],
     [threw |-> TRUE, error |-> [message |-> "connect ECONNREFUSED 10.0.0.1:5432"]],
     [threw |-> TRUE, error |-> [message |-> ""]]}

RouteRequests ==
    [type : {Param(t) : t \in RouteTypes \cup {"bogus"}} \cup {NoParam},
     nodeId : {NoParam, Param(""), Param("pnode_0")},
     outcome : MetricOutcomes]

InitRoute ==
    /\ GateInit
    /\ CacheInit
    /\ minput \in RouteRequests
    /\ mout = NotRun

HandleGet ==
    /\ mout = NotRun
    /\ mout' = [run |-> TRUE,
                response |-> GET(minput.type, minput.nodeId, minput.outcome)]
    /\ UNCHANGED << gateVars, minput, cacheVars >>

NextRoute == HandleGet

SpecRoute == InitRoute /\ [][NextRoute]_vars

\* C11: the response is 4xx exactly when the type selector is unknown or
\* type=commission-history comes without nodeId; a request whose metric
\* function throws is answered 5xx with the generic message.
C11_InvalidQueryOnly ==
    mout.run =>
        LET invalidQuery == \/ ~knownType(minput.type)
                            \/ /\ minput.type.value = "commission-history"
                               /\ falsyParam(minput.nodeId)
        IN  /\ (mout.response.status \in 400..499) <=> invalidQuery
            /\ (~invalidQuery /\ minput.outcome.threw) =>
                  /\ mout.response.status \in 500..599
                  /\ mout.response.body.error = "Internal Server Error"

(***************************************************************************)
(* Derived metrics over the node list getClusterNodes returned:            *)
(* getSuperminorityInfo, getDecentralizationMetrics, getXScore             *)
(* (src/verify_multi_node_stats.js) and getNetworkStats                    *)
(* (src/unnamed/part_014).                                                 *)
(***************************************************************************)
\* a node whose location is null
NoLocation == [missing |-> TRUE]

\* the loop stops only above the threshold
reachedThreshold_Strict(acc, totalCredits) == acc * 100 > totalCredits * 33

\* verify_multi_node_stats.js:379-383: sum >= totalCredits * 0.33
reachedThreshold(acc, totalCredits) == acc * 100 >= totalCredits * 33

\* lines 382-391: the loop over the sorted nodes, from entry i with `acc` summed
RECURSIVE superminorityFrom(_, _, _, _)
superminorityFrom(sorted, i, acc, totalCredits) ==
    IF i > Len(sorted) \/ reachedThreshold(acc, totalCredits) THEN << >>
    ELSE LET credits == sorted[i].credits
         IN  << [pubkey |-> sorted[i].pubkey,
                 stake |-> credits,
                 percentage |-> IF totalCredits > 0 THEN Q(credits * 100, totalCredits)
                                ELSE Int2Q(0)] >>
             \o superminorityFrom(sorted, i + 1, acc + credits, totalCredits)

\* line 397
riskLevelOf(count) == IF count < 5 THEN "high" ELSE IF count < 15 THEN "medium" ELSE "low"

\* lines 372-399
getSuperminorityInfo(nodes) ==
    LET totalCredits == sum([i \in 1..Len(nodes) |-> nodes[i].credits])
        sorted == sortByCredits(nodes)
        superminorityNodes == superminorityFrom(sorted, 1, 0, totalCredits)
    IN  [count |-> Len(superminorityNodes),
         threshold |-> 33,
         nodes |-> superminorityNodes,
         riskLevel |-> riskLevelOf(Len(superminorityNodes))]

\* the keys of a Record<string, ...> filled in the order of `values`:
\* every value once, at the place of its first occurrence
RECURSIVE keysInOrder(_, _)
keysInOrder(values, i) ==
    IF i > Len(values) THEN << >>
    ELSE IF \E j \in 1..(i - 1) : values[j] = values[i] THEN keysInOrder(values, i + 1)
    ELSE << values[i] >> \o keysInOrder(values, i + 1)

countOf(values, key) == Cardinality({i \in 1..Len(values) : values[i] = key})

RECURSIVE insertByCount(_, _)
insertByCount(sorted, x) ==
    IF sorted = << >> THEN << x >>
    ELSE IF Head(sorted).count >= x.count
         THEN << Head(sorted) >> \o insertByCount(Tail(sorted), x)
         ELSE << x >> \o sorted

RECURSIVE sortCountFrom(_, _)
sortCountFrom(entries, i) ==
    IF i = 0 THEN << >> ELSE insertByCount(sortCountFrom(entries, i - 1), entries[i])

\* .sort((a, b) => b.count - a.count)
sortByCount(entries) == sortCountFrom(entries, Len(entries))

\* Object.entries(count).map(...).sort(...) of lines 147-157, for the values
\* counted into one Record; `total` is nodes.length || 1
distributionOf(values, total) ==
    LET keys == keysInOrder(values, 1)
    IN  sortByCount([i \in 1..Len(keys) |->
                        [key |-> keys[i],
                         count |-> countOf(values, keys[i]),
                         percentage |-> Q(countOf(values, keys[i]) * 100, total)]])

\* line 165: sum > total / 2
majorityReached(acc, total) == 2 * acc > total

\* lines 160-166: the loop over sortedCounts, from entry i with `acc` summed
RECURSIVE nakamotoFrom(_, _, _, _)
nakamotoFrom(sortedCounts, i, acc, total) ==
    IF i > Len(sortedCounts) THEN i - 1
    ELSE IF majorityReached(acc + sortedCounts[i].count, total) THEN i
    ELSE nakamotoFrom(sortedCounts, i + 1, acc + sortedCounts[i].count, total)

\* line 138: ASNS.find(a => a.asn === asn)?.provider || 'Unknown'
providerOf(asn) ==
    IF \E i \in 1..Len(ASNS) : ASNS[i].asn = asn
    THEN ASNS[CHOOSE i \in 1..Len(ASNS) : ASNS[i].asn = asn].provider
    ELSE "Unknown"

\* lines 123-175
getDecentralizationMetrics(nodes) ==
    LET located == filterFrom(nodes, {i \in 1..Len(nodes) : nodes[i].location # NoLocation}, 1)
        countries == [i \in 1..Len(located) |-> located[i].location.country]
        withDc == filterFrom(located, {i \in 1..Len(located) : located[i].location.datacenter # ""}, 1)
        datacenters == [i \in 1..Len(withDc) |-> withDc[i].location.datacenter]
        withAsn == filterFrom(located, {i \in 1..Len(located) : located[i].location.asn # ""}, 1)
        asns == [i \in 1..Len(withAsn) |-> withAsn[i].location.asn]
        total == IF Len(nodes) = 0 THEN 1 ELSE Len(nodes)
        asnEntries == distributionOf(asns, total)
    IN  [nakamotoCoefficient |-> nakamotoFrom(distributionOf(countries, total), 1, 0, total),
         giniCoefficient |-> Q(35, 100),
         countryDistribution |-> distributionOf(countries, total),
         datacenterDistribution |-> distributionOf(datacenters, total),
         asnDistribution |-> [i \in 1..Len(asnEntries) |->
                                 [key |-> asnEntries[i].key,
                                  provider |-> providerOf(asnEntries[i].key),
                                  count |-> asnEntries[i].count,
                                  percentage |-> asnEntries[i].percentage]]]

\* the ratio taken without looking at nodes.length
networkHealthOf_Unguarded(onlineNodes, totalNodes) ==
    qMul(qDiv(Int2Q(onlineNodes), Int2Q(totalNodes)), Int2Q(100))

\* part_014:54: nodes.length > 0 ? (onlineNodes / nodes.length) * 100 : 0
networkHealthOf(onlineNodes, totalNodes) ==
    IF totalNodes > 0 THEN qMul(qDiv(Int2Q(onlineNodes), Int2Q(totalNodes)), Int2Q(100))
    ELSE Int2Q(0)

countStatus(nodes, status) == Cardinality({i \in 1..Len(nodes) : nodes[i].status = status})

\* part_014:36-69
getNetworkStats(nodes) ==
    LET onlineNodesData == onlineOf(nodes)
        online == Len(onlineNodesData)
    IN  [totalNodes |-> Len(nodes),
         onlineNodes |-> countStatus(nodes, "online"),
         offlineNodes |-> countStatus(nodes, "offline"),
         degradedNodes |-> countStatus(nodes, "degraded"),
         totalStorageCapacityTB |->
             Q(sum([i \in 1..Len(nodes) |-> nodes[i].metrics.storageCapacityGB]), 1000),
         totalStorageUsedTB |->
             Q(sum([i \in 1..Len(nodes) |-> nodes[i].metrics.storageUsedGB]), 1000),
         averageUptime |->
             IF online > 0
             THEN Q(sum([i \in 1..online |-> onlineNodesData[i].uptime]), online)
             ELSE Int2Q(0),
         averageResponseTime |->
             IF online > 0
             THEN Q(sum([i \in 1..online |-> onlineNodesData[i].metrics.responseTimeMs]), online)
             ELSE Int2Q(0),
         networkHealth |-> networkHealthOf(countStatus(nodes, "online"), Len(nodes)),
         gossipMessages24h |->
             sum([i \in 1..Len(nodes) |->
                     nodes[i].gossip.messagesReceived + nodes[i].gossip.messagesSent])]

\* verify_multi_node_stats.js:312-319
getXScoreGrade(score) ==
    IF qLe(Int2Q(95), score) THEN "S"
    ELSE IF qLe(Int2Q(85), score) THEN "A"
    ELSE IF qLe(Int2Q(70), score) THEN "B"
    ELSE IF qLe(Int2Q(55), score) THEN "C"
    ELSE IF qLe(Int2Q(40), score) THEN "D"
    ELSE "F"

\* lines 279 and 299: the weighted blend of the five sub-scores
blend(storageThroughput, dataAvailabilityLatency, uptime, gossipHealth, peerConnectivity) ==
    qAdd(qAdd(qAdd(qAdd(qMul(storageThroughput, Q(25, 100)),
                        qMul(dataAvailabilityLatency, Q(25, 100))),
                   qMul(uptime, Q(20, 100))),
              qMul(gossipHealth, Q(15, 100))),
         qMul(peerConnectivity, Q(15, 100)))

\* lines 273-289 and 293-309: the XScore record built from the five
\* quantities the two functions compute
xScoreOf(throughput, latency, uptime, peers) ==
    LET storageThroughput == MathMin(Int2Q(100), qMul(throughput, Q(15, 10)))
        dataAvailabilityLatency == MathMax(Int2Q(0), qSub(Int2Q(100), qMul(latency, Q(5, 10))))
        gossipHealth == MathMin(Int2Q(100), qMul(peers, Int2Q(2)))
        peerConnectivity == MathMin(Int2Q(100), qMul(peers, Int2Q(3)))
        overall == blend(storageThroughput, dataAvailabilityLatency, uptime,
                         gossipHealth, peerConnectivity)
    IN  [overall |-> overall,
         storageThroughput |-> storageThroughput,
         dataAvailabilityLatency |-> dataAvailabilityLatency,
         uptime |-> uptime,
         gossipHealth |-> gossipHealth,
         peerConnectivity |-> peerConnectivity,
         grade |-> getXScoreGrade(overall)]

\* storageUsedGB / storageCapacityGB * 100
throughputOf(node) ==
    qMul(qDiv(Int2Q(node.metrics.storageUsedGB), Int2Q(node.metrics.storageCapacityGB)),
         Int2Q(100))

\* lines 292-310
calculateXScore(node) ==
    xScoreOf(throughputOf(node), Int2Q(node.metrics.responseTimeMs),
             Int2Q(node.uptime), Int2Q(node.gossip.peersConnected))

\* lines 253-290; nodeId is NoParam when the caller gives none
getXScore(nodes, nodeId) ==
    LET found == {i \in 1..Len(nodes) : nodeId # NoParam /\ nodes[i].id = nodeId.value}
        onlineNodes == onlineOf(nodes)
        n == Len(onlineNodes)
    IN  IF found # {}
        THEN calculateXScore(nodes[CHOOSE i \in found : \A j \in found : i <= j])
        ELSE IF n = 0
        THEN [overall |-> Int2Q(0), storageThroughput |-> Int2Q(0),
              dataAvailabilityLatency |-> Int2Q(0), uptime |-> Int2Q(0),
              gossipHealth |-> Int2Q(0), peerConnectivity |-> Int2Q(0), grade |-> "F"]
        ELSE xScoreOf(
                 qDiv(qSum([i \in 1..n |-> throughputOf(onlineNodes[i])]), Int2Q(n)),
                 Q(sum([i \in 1..n |-> onlineNodes[i].metrics.responseTimeMs]), n),
                 Q(sum([i \in 1..n |-> onlineNodes[i].uptime]), n),
                 Q(sum([i \in 1..n |-> onlineNodes[i].gossip.peersConnected]), n))

(***************************************************************************)
(* The metric functions taken alone.  Each of them first awaits            *)
(* getClusterNodes(); the input is what that call resolved to: the list    *)
(* of a refresh whose adapters all answered empty, or a list of nodes      *)
(* served from the store.                                                  *)
(***************************************************************************)
UsEast == [country |-> "United States", countryCode |-> "US", city |-> "New York",
           lat |-> 407128, lng |-> -740060, datacenter |-> "AWS", asn |-> "AS16509"]
Frankfurt == [country |-> "Germany", countryCode |-> "DE", city |-> "Frankfurt",
              lat |-> 501109, lng |-> 86821, datacenter |-> "Hetzner", asn |-> "AS24940"]

\* the i-th node of a list, with unremarkable values
BaseNode(i) ==
    [id |-> << "pnode_", i >>, pubkey |-> << 64 + i >>, status |-> "online",
     credits |-> 0, uptime |-> 99, location |-> UsEast,
     metrics |-> [storageUsedGB |-> 500, storageCapacityGB |-> 1000, responseTimeMs |-> 50],
     gossip |-> [peersConnected |-> 10, messagesReceived |-> 1, messagesSent |-> 1]]

\* the nodes the i-th place of a list is drawn from: BaseNode(i) with one
\* of its values changed
MetricNodes(i) ==
    {[BaseNode(i) EXCEPT !.credits = c] : c \in {0, 33, 34, 100}}
    \cup {[BaseNode(i) EXCEPT !.location = l] : l \in {NoLocation, Frankfurt}}
    \cup {[BaseNode(i) EXCEPT !.status = st] : st \in {"offline", "degraded"}}
    \cup {[BaseNode(i) EXCEPT !.uptime = 101],
          [BaseNode(i) EXCEPT !.metrics.responseTimeMs = 201],
          [BaseNode(i) EXCEPT !.metrics.storageUsedGB = 0, !.metrics.storageCapacityGB = 0],
          [BaseNode(i) EXCEPT !.gossip.peersConnected = 60]}

RECURSIVE NodeListsOf(_)
NodeListsOf(len) ==
    IF len = 0 THEN {<< >>}
    ELSE {Append(list, node) : list \in NodeListsOf(len - 1), node \in MetricNodes(len)}

NodeLists(n) == UNION {NodeListsOf(len) : len \in 0..n}

\* a list with the given credits, in the given order
NodesWithCredits(credits) ==
    [i \in 1..Len(credits) |-> [BaseNode(i) EXCEPT !.credits = credits[i]]]

ExampleCredits == << 500, 400, 300, 200, 100, 50, 50, 50, 25, 25 >>

\* adapter answers that are all empty or null
EmptyAdapters ==
    {[source |-> "refresh", rpc |-> rpc, podCredits |-> podCredits,
      geoBatch |-> << >>, nowMs |-> Epoch0] :
        rpc \in {[failed |-> FALSE, shape |-> "withPods", pods |-> << >>],
                 [failed |-> FALSE, shape |-> "array", pods |-> << >>],
                 [failed |-> FALSE, shape |-> "null"]},
        podCredits \in {NullCredits, [pods_credits |-> << >>]}}

MetricInputs ==
    EmptyAdapters
    \cup {[source |-> "store", nodes |-> nodes] :
             nodes \in NodeLists(MaxNodes)
                       \cup {NodesWithCredits(ExampleCredits),
                             NodesWithCredits(<< 33, 33, 33, 1 >>),
                             NodesWithCredits([i \in 1..15 |-> 10])}}

\* what getClusterNodes resolved to
clusterNodesOf(input) ==
    IF input.source = "refresh"
    THEN refreshResult(input.rpc, input.podCredits, input.geoBatch, input.nowMs)
    ELSE input.nodes

InitMetrics ==
    /\ GateInit
    /\ CacheInit
    /\ minput \in MetricInputs
    /\ mout = NotRun

\* one metric function runs to its end
Computed(fn, value) ==
    /\ mout = NotRun
    /\ mout' = [run |-> TRUE, fn |-> fn, value |-> value]
    /\ UNCHANGED << gateVars, minput, cacheVars >>

GetSuperminorityInfo ==
    Computed("getSuperminorityInfo", getSuperminorityInfo(clusterNodesOf(minput)))

GetDecentralizationMetrics ==
    Computed("getDecentralizationMetrics", getDecentralizationMetrics(clusterNodesOf(minput)))

GetNetworkStats ==
    Computed("getNetworkStats", getNetworkStats(clusterNodesOf(minput)))

GetXScore ==
    \E nodeId \in {NoParam} \cup {Param(<< "pnode_", i >>) : i \in 1..2} :
        Computed("getXScore", [nodeId |-> nodeId,
                               score |-> getXScore(clusterNodesOf(minput), nodeId)])

NextMetrics ==
    \/ GetSuperminorityInfo
    \/ GetDecentralizationMetrics
    \/ GetNetworkStats
    \/ GetXScore

SpecMetrics == InitMetrics /\ [][NextMetrics]_vars

(***************************************************************************)
(* Claims about the derived metrics.                                       *)
(***************************************************************************)
metricNodes == clusterNodesOf(minput)
creditsIn(nodes) == [i \in 1..Len(nodes) |-> nodes[i].credits]
stakesIn(entries) == [i \in 1..Len(entries) |-> entries[i].stake]

\* C12: getSuperminorityInfo returns the shortest prefix of the nodes in
\* descending order of credits whose credits sum to at least 33% of all
\* credits; count is its length, riskLevel is high below 5, medium below 15,
\* low from 15 on; the credits 500,400,300,200,100,50,50,50,25,25 give the
\* first two nodes, count 2 and riskLevel high.
C12_Superminority ==
    (mout.run /\ mout.fn = "getSuperminorityInfo") =>
        LET r == mout.value
            total == sum(creditsIn(metricNodes))
            chosen == {r.nodes[i].pubkey : i \in 1..Len(r.nodes)}
        IN  /\ r.count = Len(r.nodes)
            /\ Cardinality(chosen) = r.count
            /\ \A i \in 1..r.count :
                  \E j \in 1..Len(metricNodes) :
                      /\ metricNodes[j].pubkey = r.nodes[i].pubkey
                      /\ metricNodes[j].credits = r.nodes[i].stake
            /\ \A i \in 1..(r.count - 1) : r.nodes[i].stake >= r.nodes[i + 1].stake
            /\ \A i \in 1..r.count, j \in 1..Len(metricNodes) :
                  metricNodes[j].pubkey \notin chosen => metricNodes[j].credits <= r.nodes[i].stake
            /\ sum(stakesIn(r.nodes)) * 100 >= total * 33
            /\ r.count > 0 =>
                  sum(stakesIn(SubSeq(r.nodes, 1, r.count - 1))) * 100 < total * 33
            /\ r.riskLevel = (IF r.count < 5 THEN "high"
                              ELSE IF r.count < 15 THEN "medium" ELSE "low")
            /\ creditsIn(metricNodes) = ExampleCredits =>
                  /\ r.count = 2
                  /\ r.riskLevel = "high"
                  /\ r.nodes[1].pubkey = metricNodes[1].pubkey
                  /\ r.nodes[2].pubkey = metricNodes[2].pubkey

C12_Witness ==
    /\ mout.run
    /\ mout.fn = "getSuperminorityInfo"
    /\ creditsIn(metricNodes) = ExampleCredits
    /\ mout.value.count = 2

\* C13: when the cluster, credits and geolocation adapters all answer empty
\* or null, the refresh returns the empty list without an error, and on
\* that list networkHealth is the number 0, the country, datacenter and ASN
\* distributions are empty and nakamotoCoefficient is 0.
C13_EmptyEverything ==
    (mout.run /\ minput.source = "refresh") =>
        LET m == mergeOf(minput.rpc, minput.podCredits, minput.geoBatch, minput.nowMs)
        IN  /\ ~m.invalid /\ ~m.threw
            /\ metricNodes = << >>
            /\ mout.fn = "getNetworkStats" => mout.value.networkHealth = Int2Q(0)
            /\ mout.fn = "getDecentralizationMetrics" =>
                  /\ mout.value.countryDistribution = << >>
                  /\ mout.value.datacenterDistribution = << >>
                  /\ mout.value.asnDistribution = << >>
                  /\ mout.value.nakamotoCoefficient = 0

C13_Witness ==
    /\ mout.run
    /\ minput.source = "refresh"
    /\ minput.podCredits = NullCredits
    /\ mout.fn = "getNetworkStats"
    /\ mout.value.totalNodes = 0

\* C18: each of the five sub-scores of an X-Score, of one node or of the
\* network average, lies in [0,100], and so does overall.
C18_XScoreClamped ==
    (mout.run /\ mout.fn = "getXScore") =>
        LET x == mout.value.score
        IN  /\ qWithin(x.storageThroughput, 0, 100)
            /\ qWithin(x.dataAvailabilityLatency, 0, 100)
            /\ qWithin(x.uptime, 0, 100)
            /\ qWithin(x.gossipHealth, 0, 100)
            /\ qWithin(x.peerConnectivity, 0, 100)
            /\ qWithin(x.overall, 0, 100)

\* nodes of the list that lie in one of the countries of S
nodesIn(nodes, S) ==
    Cardinality({i \in 1..Len(nodes) :
                    nodes[i].location # NoLocation /\ nodes[i].location.country \in S})

\* C19: for a non-empty node list nakamotoCoefficient is the smallest number
\* of country buckets that together hold more than half of all nodes.
C19_Nakamoto ==
    (mout.run /\ mout.fn = "getDecentralizationMetrics" /\ Len(metricNodes) > 0) =>
        LET countries == {metricNodes[i].location.country :
                             i \in {j \in 1..Len(metricNodes) :
                                       metricNodes[j].location # NoLocation}}
            holds(k) == \E S \in SUBSET countries :
                           /\ Cardinality(S) = k
                           /\ 2 * nodesIn(metricNodes, S) > Len(metricNodes)
            k == mout.value.nakamotoCoefficient
        IN  /\ holds(k)
            /\ \A j \in 0..(k - 1) : ~holds(j)

(***************************************************************************)
(* The in-memory cache and the credits adapter: src/lib/pnode-api.ts,      *)
(* getCached, setCache and fetchPodCredits (the fetchPodCredits of         *)
(* src/server/api/pnodes.ts:8-22 goes through the same two functions).     *)
(* `cache` maps a key to its entry [data, timestamp]; a fetchPodCredits    *)
(* call is an entry of `calls`: it either returns from the cache at once   *)
(* or waits for the upstream response.                                     *)
(***************************************************************************)
CACHE_DURATION == 60000

\* the body `null` of an upstream response
JsonNull == [jsonNull |-> TRUE]

LedgerA == [pods_credits |-> << [pod_id |-> KeyA, credits |-> 100] >>]
LedgerB == [pods_credits |-> << [pod_id |-> KeyA, credits |-> 9000] >>]

\* cached entries are compared with <= : an entry exactly CACHE_DURATION old is served
getCached_Inclusive(table, key, nowMs) ==
    IF key \in DOMAIN table /\ nowMs - table[key].timestamp <= CACHE_DURATION
    THEN table[key].data
    ELSE JsonNull

\* pnode-api.ts:25-31
getCached(table, key, nowMs) ==
    IF key \in DOMAIN table /\ nowMs - table[key].timestamp < CACHE_DURATION
    THEN table[key].data
    ELSE JsonNull

\* pnode-api.ts:33-35
setCache(table, key, data, nowMs) ==
    [k \in DOMAIN table \cup {key} |->
        IF k = key THEN [data |-> data, timestamp |-> nowMs] ELSE table[k]]

\* what the upstream credits service answers: a body with status ok, a
\* status that is not ok, or no answer (fetch rejects)
UpstreamAnswers ==
    {[ok |-> TRUE, body |-> body] : body \in {LedgerA, LedgerB, JsonNull}}
    \cup {[ok |-> FALSE, body |-> JsonNull], [ok |-> FALSE, body |-> LedgerA]}
    \cup {[rejected |-> TRUE]}

\* what the devnet RPC answers to fetchRPC: a body with a result, a body
\* without one (a JSON-RPC error), a status that is not ok, or no answer
RpcAnswers ==
    {[ok |-> TRUE, body |-> [result |-> [slot |-> 42]]],
     [ok |-> TRUE, body |-> [result |-> JsonNull]],
     [ok |-> FALSE, body |-> [result |-> [slot |-> 42]]],
     [rejected |-> TRUE]}

\* a call of fetchPodCredits or fetchRPC up to its cache lookup
\* (pnode-api.ts:46-49, 72-75: `if (cached) return cached`)
startCall(fn, key, table, nowMs) ==
    LET cached == getCached(table, key, nowMs)
        had == key \in DOMAIN table
    IN  [fn |-> fn, key |-> key,
         pc |-> IF cached # JsonNull THEN "done" ELSE "fetching",
         had |-> had,
         age |-> IF had THEN nowMs - table[key].timestamp ELSE 0,
         entry |-> IF had THEN table[key].data ELSE JsonNull,
         upstream |-> cached = JsonNull,
         answer |-> JsonNull, kept |-> TRUE,
         result |-> cached]

\* a failed fetch answers with the entry the cache holds, however old
settled_StaleOnFailure(fn, key, table, answer, nowMs) ==
    IF answer # [rejected |-> TRUE] /\ answer.ok
    THEN [cache |-> setCache(table, key, answer.body, nowMs), result |-> answer.body]
    ELSE [cache |-> table,
          result |-> IF key \in DOMAIN table THEN table[key].data ELSE JsonNull]

\* pnode-api.ts:51-65 and 77-100: what the call stores and returns once the
\* upstream has answered
settled(fn, key, table, answer, nowMs) ==
    LET data == IF fn = "fetchRPC" THEN answer.body.result ELSE answer.body
        stored == /\ answer # [rejected |-> TRUE]
                  /\ answer.ok
                  /\ fn = "fetchRPC" => data # JsonNull
    IN  IF stored
        THEN [cache |-> setCache(table, key, data, nowMs), result |-> data]
        ELSE [cache |-> table, result |-> JsonNull]

\* pnode-api.ts:46-49: fetchPodCredits is called
CallFetchPodCredits ==
    /\ Len(calls) + Len(flog) < MaxCalls
    /\ calls' = Append(calls, startCall("fetchPodCredits", "pod_credits", cache, now))
    /\ UNCHANGED << gateVars, minput, mout, cache, flog >>

\* pnode-api.ts:72-75: fetchRPC('getSlot') is called
CallFetchRPC ==
    /\ Len(calls) + Len(flog) < MaxCalls
    /\ calls' = Append(calls, startCall("fetchRPC", "rpc:getSlot:[]", cache, now))
    /\ UNCHANGED << gateVars, minput, mout, cache, flog >>

\* pnode-api.ts:51-65, 77-100: the upstream has answered the call at place c
UpstreamResponse(c) ==
    /\ c \in 1..Len(calls)
    /\ calls[c].pc = "fetching"
    /\ \E answer \in IF calls[c].fn = "fetchRPC" THEN RpcAnswers ELSE UpstreamAnswers :
          LET after == settled(calls[c].fn, calls[c].key, cache, answer, now)
          IN  /\ cache' = after.cache
              /\ calls' = [calls EXCEPT ![c].pc = "done",
                                        ![c].answer = answer,
                                        ![c].kept = (after.cache = cache),
                                        ![c].result = after.result]
    /\ UNCHANGED << gateVars, minput, mout, flog >>

\* utils.ts: getNodeLocation and generateDeterministicIP are called
CallFallback ==
    /\ Len(calls) + Len(flog) < MaxCalls
    /\ \E pubkey \in Keys, index \in 0..1 :
          flog' = Append(flog, [pubkey |-> pubkey, index |-> index,
                                location |-> getNodeLocation(pubkey, index),
                                ip |-> generateDeterministicIP(pubkey),
                                at |-> now,
                                cached |-> DOMAIN cache])
    /\ UNCHANGED << gateVars, minput, mout, cache, calls >>

\* the clock steps to one millisecond before CACHE_DURATION, then by milliseconds
CacheTick ==
    /\ ticks < MaxTicks
    /\ ticks' = ticks + 1
    /\ now' = now + (IF ticks = 0 THEN CACHE_DURATION - 1 ELSE 1)
    /\ UNCHANGED << store, lastWriter, started, pc, req, result, minput, mout, cacheVars >>

InitCache ==
    /\ GateInit
    /\ CacheInit
    /\ minput = NotRun
    /\ mout = NotRun

NextCache ==
    \/ CallFetchPodCredits
    \/ CallFetchRPC
    \/ \E c \in 1..MaxCalls : UpstreamResponse(c)
    \/ CallFallback
    \/ CacheTick

SpecCache == InitCache /\ [][NextCache]_vars

C20_CreditsCacheLifetime ==
    \A c \in 1..Len(calls) :
        (calls[c].had /\ calls[c].entry # JsonNull) =>
            /\ calls[c].age < 60 * 1000 =>
                  /\ ~calls[c].upstream
                  /\ calls[c].pc = "done"
                  /\ calls[c].result = calls[c].entry
            /\ calls[c].age >= 60 * 1000 => calls[c].upstream

C20_Witness ==
    \E c, d \in 1..Len(calls) :
        /\ calls[c].had /\ calls[c].age = 60 * 1000 - 1
        /\ calls[c].result = LedgerB /\ ~calls[c].upstream
        /\ calls[d].had /\ calls[d].age = 60 * 1000 /\ calls[d].upstream

(***************************************************************************)
(* Ingestion: ingestNodeData with its node mapping                         *)
(* (src/verify_multi_node_stats.js:501-726) and the route that runs it     *)
(* (src/unnamed/part_008, GET /api/ingest).                                *)
(***************************************************************************)
\* what a function without a return value resolves to
Undefined == [undefined |-> TRUE]

UnknownLocation ==
    [country |-> "Unknown", countryCode |-> "UN", city |-> "Unknown",
     lat |-> 0, lng |-> 0, datacenter |-> "Unknown", asn |-> "Unknown"]

\* lines 514-517: rpcNode.last_seen_timestamp || 0
lastSeenOr0(rpcNode) ==
    IF rpcNode.last_seen_timestamp = NoTs THEN 0 ELSE rpcNode.last_seen_timestamp

\* lines 501-586, the mapping of the ingestion
ingestMapRpcNodeToPNode(rpcNode, creditData, index, geoData, nowMs) ==
    LET pubkey == IF rpcNode.pubkey # NoString THEN rpcNode.pubkey ELSE unknownKey(index)
    IN  [id |-> << "pnode_", pubkey >>,
         pubkey |-> pubkey,
         ip |-> IF rpcNode.address # NoString THEN splitColon0(rpcNode.address) ELSE NoString,
         status |-> IF (nowMs \div 1000) - lastSeenOr0(rpcNode) < 300 THEN "online" ELSE "offline",
         lastSeen |-> toISOString(lastSeenOr0(rpcNode) * 1000),
         location |-> IF geoData # NoGeo THEN geoLocation(geoData) ELSE UnknownLocation,
         credits |-> creditData.credits,
         creditsRank |-> 0,
         performance |-> [score |-> Int2Q(0), tier |-> "fair"]]

\* lines 626-631
ingestMapped(rpcPods, creditMap, geoBatch, nowMs) ==
    [i \in 1..Len(rpcPods) |->
        ingestMapRpcNodeToPNode(rpcPods[i],
                                [credits |-> creditsOf(creditMap, rpcPods[i].pubkey)],
                                i - 1,
                                geoOf(geoBatch, podIp(rpcPods[i])),
                                nowMs)]

\* lines 637-640: the deduplicated nodes in credit order, each with its rank
rankedNodes(pnodes) ==
    LET sorted == sortByCredits(uniqueNodes(pnodes))
    IN  [i \in 1..Len(sorted) |-> [sorted[i] EXCEPT !.creditsRank = i]]

\* the list `pnodes` after lines 637-640: uniqueNodes holds the objects of
\* pnodes themselves (for each key the last one), so these carry the ranks
afterRanking(pnodes) ==
    LET ranked == rankedNodes(pnodes)
        kept(i) == \A j \in (i + 1)..Len(pnodes) : pnodes[j].pubkey # pnodes[i].pubkey
    IN  [i \in 1..Len(pnodes) |->
            IF kept(i)
            THEN ranked[CHOOSE r \in 1..Len(ranked) : ranked[r].pubkey = pnodes[i].pubkey]
            ELSE pnodes[i]]

\* lines 643-661
ingestRows(nodes, nowMs) ==
    [i \in 1..Len(nodes) |->
        [id |-> nodes[i].id, pubkey |-> nodes[i].pubkey, ip |-> nodes[i].ip,
         status |-> nodes[i].status, last_seen |-> nodes[i].lastSeen,
         location |-> nodes[i].location, performance |-> nodes[i].performance,
         credits |-> nodes[i].credits, credits_rank |-> nodes[i].creditsRank,
         updated_at |-> toISOString(nowMs)]]

\* an upsert error is only logged
upsertErrorThrows_LogOnly(outcome) == FALSE

\* lines 666-669: if (error) { ...; throw error; }
upsertErrorThrows(outcome) == outcome = "error"

\* lines 593-726.  threw: the function rejects; returned: the value it
\* resolves to; rows, upserted: the rows of the upsert and whether they were
\* written; statsInserted: whether the network_stats row was written
ingestNodeData(rpc, podCredits, geoBatch, upsertOutcome, statsOutcome, nowMs) ==
    LET rpcPods == rpcPodsOf(rpc)
        pnodes == ingestMapped(rpcPods.items, creditMapOf(podCredits), geoBatch, nowMs)
        rows == ingestRows(rankedNodes(pnodes), nowMs)
        quiet == [threw |-> FALSE, returned |-> Undefined, rows |-> << >>,
                  upserted |-> FALSE, statsInserted |-> FALSE]
    IN  IF rpc.failed THEN [quiet EXCEPT !.threw = TRUE]
        ELSE IF ~rpcPods.isArray THEN quiet
        ELSE IF Len(rows) = 0 THEN [quiet EXCEPT !.returned = pnodes]
        ELSE IF upsertErrorThrows(upsertOutcome)
        THEN [quiet EXCEPT !.threw = TRUE, !.rows = rows]
        ELSE [threw |-> FALSE, returned |-> afterRanking(pnodes), rows |-> rows,
              upserted |-> upsertOutcome = "ok",
              statsInserted |-> upsertOutcome = "ok" /\ statsOutcome = "ok"]

\* part_008:6-13
ingestGET(ingestion) ==
    IF ingestion.threw
    THEN jsonResponse(500, [success |-> FALSE])
    ELSE jsonResponse(200, [success |-> TRUE])

PodAOld == [pubkey |-> KeyA, address |-> << Ip1, 9001 >>, last_seen_timestamp |-> TsOld]

IngestRpcResults ==
    {[failed |-> FALSE, shape |-> "withPods", pods |-> l] :
        l \in ListsUpTo({PodA, PodAOld, PodB, PodNoTs}, MaxPods)}
    \cup {[failed |-> FALSE, shape |-> "object", pods |-> << >>],
          [failed |-> TRUE, shape |-> "null", pods |-> << >>]}

IngestInputs ==
    [rpc : IngestRpcResults,
     podCredits : GateLedgers,
     geoBatch : {<< >>, geoBatchOf([ip \in {Ip1} |-> "success"])},
     upsert : {"ok", "error"},
     stats : {"ok", "error"},
     nowMs : {Epoch0}]

InitIngest ==
    /\ GateInit
    /\ CacheInit
    /\ minput \in IngestInputs
    /\ mout = NotRun

HandleIngest ==
    /\ mout = NotRun
    /\ LET ingestion == ingestNodeData(minput.rpc, minput.podCredits, minput.geoBatch,
                                       minput.upsert, minput.stats, minput.nowMs)
       IN  mout' = [run |-> TRUE, ingestion |-> ingestion, response |-> ingestGET(ingestion)]
    /\ UNCHANGED << gateVars, minput, cacheVars >>

NextIngest == HandleIngest

SpecIngest == InitIngest /\ [][NextIngest]_vars

\* C15: GET /api/ingest answers OK with success = true when ingestNodeData
\* completes, and 500 with success = false when it throws, which it does
\* when the cluster adapter fails and when the store upsert returns an
\* error; success = true is never reported after an upsert error.
C15_IngestEndpoint ==
    mout.run =>
        LET adapterException == minput.rpc.failed
            upsertError == /\ ~minput.rpc.failed
                           /\ minput.rpc.shape = "withPods"
                           /\ Len(minput.rpc.pods) > 0
                           /\ minput.upsert = "error"
            r == mout.response
        IN  /\ (adapterException \/ upsertError) =>
                  r.status = 500 /\ r.body.success = FALSE
            /\ ~(adapterException \/ upsertError) =>
                  r.status \in 200..299 /\ r.body.success = TRUE
            /\ r.body.success => mout.ingestion.upserted \/ mout.ingestion.rows = << >>

C15_Witness ==
    /\ mout.run
    /\ ~minput.rpc.failed
    /\ Len(minput.rpc.pods) = 2
    /\ minput.upsert = "error"
    /\ mout.response.status = 500

(***************************************************************************)
(* Geolocation batches.  Four functions resolve a list of IP addresses:    *)
(*   "single"  fetchBatchGeolocation of src/server/api/pnodes.ts:46-74     *)
(*   "chunked" fetchBatchGeolocation of verify_multi_node_stats.js:454-498 *)
(*   "post"    POST of src/unnamed/part_009:83-140                         *)
(*   "keyed"   fetchBatchGeolocation of src/unnamed/part_004:237-259       *)
(* Here an IP address is a number, the list 1..n holds n different         *)
(* addresses, and a map from IP to geolocation item is a function from the *)
(* resolved addresses to the item's status.                                *)
(***************************************************************************)
GeoChunkSize == 100
PostLimit == 45
KeyPrefix == 5

ipList(n) == [i \in 1..n |-> i]

\* Array.prototype.slice(from, to) with 0 <= from <= to
slice(list, from, to) ==
    SubSeq(list, from + 1, IF to < Len(list) THEN to ELSE Len(list))

EmptyMap == << >>

\* the map `base` with the entries of `more` written over it
assign(base, more) ==
    [k \in DOMAIN base \cup DOMAIN more |-> IF k \in DOMAIN more THEN more[k] ELSE base[k]]

restrict(map, keys) == [k \in DOMAIN map \cap keys |-> map[k]]

\* Array.prototype.filter: the elements at the places lo..hi that are in
\* `keep`, in their order
RECURSIVE filterRange(_, _, _, _)
filterRange(list, keep, lo, hi) ==
    IF lo > hi THEN << >>
    ELSE IF lo = hi THEN (IF lo \in keep THEN << list[lo] >> ELSE << >>)
    ELSE LET mid == (lo + hi) \div 2
         IN  filterRange(list, keep, lo, mid) \o filterRange(list, keep, mid + 1, hi)

\* the list without its elements in `drop`
without(list, drop) ==
    filterRange(list, {i \in 1..Len(list) : list[i] \notin drop}, 1, Len(list))

\* verify_multi_node_stats.js:459-462
RECURSIVE chunksFrom(_, _)
chunksFrom(list, i) ==
    IF i >= Len(list) THEN << >>
    ELSE << slice(list, i, i + GeoChunkSize) >> \o chunksFrom(list, i + GeoChunkSize)

\* What the upstream batch service does with one request: it answers every
\* address with success, answers the odd ones with success and the even
\* ones with status fail, answers with a status that is not ok, answers with
\* a body that is not a list, or does not answer (fetch rejects).
BatchOutcomes == {"success", "mixed", "notOk", "notArray", "rejected"}

\* the items of the answer, by address; none when there is no usable body
itemsOf(sent, outcome) ==
    IF outcome \in {"success", "mixed"}
    THEN [ip \in Range(sent) |->
             IF outcome = "mixed" /\ ip % 2 = 0 THEN "fail" ELSE "success"]
    ELSE EmptyMap

successOf(items) == restrict(items, {ip \in DOMAIN items : items[ip] = "success"})

\* verify_multi_node_stats.js:466-488, one turn of the loop over the chunks
afterChunk(acc, items) ==
    [results |-> assign(acc.results, successOf(items)),
     geoCache |-> assign(acc.geoCache, successOf(items))]

\* the loop over the chunks ends at the first chunk that has no usable answer
RECURSIVE chunkLoop_StopAtFailure(_, _, _, _)
chunkLoop_StopAtFailure(chunks, outcomes, c, acc) ==
    IF c > Len(chunks) \/ outcomes[c] \in {"notOk", "notArray", "rejected"} THEN acc
    ELSE chunkLoop_StopAtFailure(chunks, outcomes, c + 1,
                                 afterChunk(acc, itemsOf(chunks[c], outcomes[c])))

\* verify_multi_node_stats.js:466-488.  outcomes[c] is what the upstream does
\* with the request of chunk c.
RECURSIVE chunkLoop(_, _, _, _)
chunkLoop(chunks, outcomes, c, acc) ==
    IF c > Len(chunks) THEN acc
    ELSE chunkLoop(chunks, outcomes, c + 1,
                   afterChunk(acc, itemsOf(chunks[c], outcomes[c])))

\* verify_multi_node_stats.js:454-498
fetchBatchGeolocationChunked(ips, geoCache, outcomes) ==
    LET uncachedIps == without(ips, DOMAIN geoCache)
        chunks == chunksFrom(uncachedIps, 0)
        looped == chunkLoop(chunks, outcomes, 1,
                            [results |-> EmptyMap, geoCache |-> geoCache])
    IN  [requests |-> chunks,
         geoCache |-> looped.geoCache,
         result |-> assign(looped.results, restrict(looped.geoCache, Range(ips)))]

\* the chunks of a call: those of its uncached addresses
chunkCount(ips, geoCache) == Len(chunksFrom(without(ips, DOMAIN geoCache), 0))

\* pnodes.ts:46-74.  The cache of ./rpc is not part of the sources: `hit`
\* says whether getCached answered with the entry stored under the key.
fetchBatchGeolocationSingle(ips, table, hit, outcome) ==
    LET items == itemsOf(ips, outcome)
        stored == outcome \in {"success", "mixed"}
    IN  IF hit THEN [requests |-> << >>, table |-> table, result |-> table[ips]]
        ELSE [requests |-> << ips >>,
              table |-> IF stored THEN assign(table, [k \in {ips} |-> items]) ELSE table,
              result |-> items]

\* part_004:237-259
fetchBatchGeolocationKeyed(ips, table, outcome, nowMs) ==
    LET cacheKey == slice(ips, 0, KeyPrefix)
        cached == getCached(table, cacheKey, nowMs)
        items == itemsOf(ips, outcome)
        stored == outcome \in {"success", "mixed"}
    IN  IF cached # JsonNull
        THEN [requests |-> << >>, table |-> table, result |-> cached, hit |-> TRUE]
        ELSE [requests |-> << ips >>,
              table |-> IF stored THEN setCache(table, cacheKey, items, nowMs) ELSE table,
              result |-> items, hit |-> FALSE]

\* What the upstream does with the single lookups of one POST: it answers
\* all, it answers the odd addresses and rejects the even ones, it answers
\* the odd ones and gives the even ones a status that is not ok, or it
\* answers the even ones and rejects the odd ones.
LookupPatterns == {"all", "rejectEven", "notOkEven", "rejectOdd"}

lookupAnswered(pattern, ip) ==
    CASE pattern = "all" -> TRUE
      [] pattern = "rejectOdd" -> ip % 2 = 0
      [] OTHER -> ip % 2 = 1

\* part_009:95-126
postBatch(ips, geoCache, pattern, nowMs) ==
    LET limitedIps == slice(ips, 0, PostLimit)
        fresh(ip) == ip \in DOMAIN geoCache
                     /\ nowMs - geoCache[ip].timestamp < 24 * 60 * 60 * 1000
        uncached == without(limitedIps, {ip \in Range(limitedIps) : fresh(ip)})
        answered == {ip \in Range(uncached) : lookupAnswered(pattern, ip)}
    IN  [requests |-> [i \in 1..Len(uncached) |-> << uncached[i] >>],
         geoCache |-> assign(geoCache,
                             [ip \in answered |-> [data |-> "success", timestamp |-> nowMs]]),
         result |-> [ip \in {x \in Range(limitedIps) : fresh(x)} \cup answered |-> "success"]]

GeoVariants == {"single", "chunked", "post", "keyed"}

\* lists of one address, of exactly one chunk and of two chunks; two lists
\* that agree in their first KeyPrefix addresses; one list over PostLimit
GeoLists ==
    [variant \in GeoVariants |->
        CASE variant = "chunked" ->
                 {ipList(1), ipList(GeoChunkSize), ipList(GeoChunkSize + 1)}
          [] variant = "single" ->
                 {ipList(0), ipList(GeoChunkSize), ipList(GeoChunkSize + 1)}
          [] variant = "post" ->
                 {ipList(2), ipList(3), ipList(PostLimit + 1)}
          [] OTHER ->
                 {ipList(KeyPrefix), ipList(KeyPrefix + 1),
                  Append(ipList(KeyPrefix), KeyPrefix + 2)}]

InitGeo ==
    /\ GateInit
    /\ CacheInit
    /\ minput \in [variant : GeoVariants]
    /\ mout = NotRun

\* one finished call: its list, what it sent upstream, what it returned
GeoCall(ips, outcome, done) ==
    [ips |-> ips, outcome |-> outcome, at |-> now, before |-> DOMAIN cache,
     requests |-> done.requests, result |-> done.result]

CallChunked ==
    /\ minput.variant = "chunked"
    /\ Len(flog) < MaxRequests
    /\ \E ips \in GeoLists["chunked"] :
          \E outcomes \in [1..chunkCount(ips, cache) -> BatchOutcomes] :
             LET done == fetchBatchGeolocationChunked(ips, cache, outcomes)
             IN  /\ cache' = done.geoCache
                 /\ flog' = Append(flog, GeoCall(ips, outcomes, done))
    /\ UNCHANGED << gateVars, minput, mout, calls >>

CallSingle ==
    /\ minput.variant = "single"
    /\ Len(flog) < MaxRequests
    /\ \E ips \in GeoLists["single"], outcome \in BatchOutcomes :
          \E hit \in {FALSE} \cup {ips \in DOMAIN cache} :
             LET done == fetchBatchGeolocationSingle(ips, cache, hit, outcome)
             IN  /\ cache' = done.table
                 /\ flog' = Append(flog, GeoCall(ips, outcome, done))
    /\ UNCHANGED << gateVars, minput, mout, calls >>

CallKeyed ==
    /\ minput.variant = "keyed"
    /\ Len(flog) < MaxRequests
    /\ \E ips \in GeoLists["keyed"], outcome \in BatchOutcomes :
             LET done == fetchBatchGeolocationKeyed(ips, cache, outcome, now)
             IN  /\ cache' = done.table
                 /\ flog' = Append(flog, GeoCall(ips, outcome, done) @@ [hit |-> done.hit])
    /\ UNCHANGED << gateVars, minput, mout, calls >>

CallPost ==
    /\ minput.variant = "post"
    /\ Len(flog) < MaxRequests
    /\ \E ips \in GeoLists["post"], pattern \in LookupPatterns :
             LET done == postBatch(ips, cache, pattern, now)
             IN  /\ cache' = done.geoCache
                 /\ flog' = Append(flog, GeoCall(ips, pattern, done))
    /\ UNCHANGED << gateVars, minput, mout, calls >>

NextGeo ==
    \/ CallChunked
    \/ CallSingle
    \/ CallKeyed
    \/ CallPost
    \/ (minput.variant = "keyed" /\ CacheTick)

SpecGeo == InitGeo /\ [][NextGeo]_vars

\* C21: fetchBatchGeolocation never puts more than 100 IP addresses into one
\* upstream batch request, however long its input list is (both the
\* function of pnodes.ts and the chunking one of the ingestion).
C21_BoundedBatches ==
    minput.variant \in {"single", "chunked"} =>
        \A c \in 1..Len(flog) : \A r \in 1..Len(flog[c].requests) :
            Len(flog[c].requests[r]) <= 100

\* C21 for the chunking function alone
C21_ChunkedBounded ==
    minput.variant = "chunked" =>
        \A c \in 1..Len(flog) : \A r \in 1..Len(flog[c].requests) :
            Len(flog[c].requests[r]) <= 100

\* the addresses that the upstream resolved in the requests of a call
resolvedIn(call) ==
    IF minput.variant = "post"
    THEN {call.requests[r][1] : r \in {q \in 1..Len(call.requests) :
                                          lookupAnswered(call.outcome, call.requests[q][1])}}
    ELSE UNION {DOMAIN successOf(itemsOf(call.requests[r], call.outcome[r])) :
                    r \in 1..Len(call.requests)}

\* the addresses a call deals with: all of them, the first 45 in the POST
consideredIn(call) ==
    IF minput.variant = "post" THEN Range(slice(call.ips, 0, 45)) ELSE Range(call.ips)

C30_CachedForSameList ==
    minput.variant = "keyed" =>
        \A c \in 1..Len(flog) :
            flog[c].hit => DOMAIN flog[c].result = Range(flog[c].ips)

(***************************************************************************)
(* getClusterNodes with per-node getStats lookups                          *)
(* (src/unnamed/part_002:507-592) and its node mapping (429-505).          *)
(* Pod i of a list has the public key i and the address << i >>.           *)
(* getStats is a call into the xandeum-prpc library: a peer answers it     *)
(* with stats, refuses it, or never answers; whether the library gives up  *)
(* on a peer that never answers is not decided by this code, so both are   *)
(* modelled.                                                               *)
(***************************************************************************)
CHUNK_SIZE == 20

NoStats == [missing |-> TRUE]

\* what the peer at `ip` answers to getStats
statsOf(ip) ==
    [cpu_percent |-> ip[1], ram_used |-> 1, ram_total |-> 4, active_streams |-> ip[1] + 1]

\* part_002:476-490, the fields taken from realStats
statsFields(realStats) ==
    IF realStats = NoStats
    THEN [cpuPercent |-> 0, memoryPercent |-> Int2Q(0), peersConnected |-> 0]
    ELSE [cpuPercent |-> realStats.cpu_percent,
          memoryPercent |-> IF realStats.ram_used # 0 /\ realStats.ram_total > 0
                            THEN qMul(qDiv(Int2Q(realStats.ram_used),
                                           Int2Q(realStats.ram_total)), Int2Q(100))
                            ELSE Int2Q(0),
          peersConnected |-> realStats.active_streams]

\* part_002:429-505
statsMapRpcNodeToPNode(rpcNode, creditData, index, realStats) ==
    [id |-> << "pnode_", index >>,
     pubkey |-> rpcNode.pubkey,
     ip |-> rpcNode.ip,
     lastSeen |-> toISOString(rpcNode.last_seen_timestamp * 1000),
     credits |-> creditData.credits,
     creditsRank |-> index + 1,
     stats |-> statsFields(realStats)]

\* part_002:586, Array.prototype.sort with (b.credits || 0) - (a.credits || 0)
sortedByCredits(nodes) ==
    LET before(i) == {j \in 1..Len(nodes) :
                         \/ nodes[j].credits > nodes[i].credits
                         \/ nodes[j].credits = nodes[i].credits /\ j < i}
    IN  [p \in 1..Len(nodes) |->
            nodes[CHOOSE i \in 1..Len(nodes) : Cardinality(before(i)) = p - 1]]

\* part_002:568-590: the list returned once the loop over the chunks ended
statsResult(rpcPods, statsMap) ==
    IF \E i \in 1..Len(rpcPods) : rpcPods[i].last_seen_timestamp = NoTs
    THEN << >>
    ELSE sortedByCredits(
             [i \in 1..Len(rpcPods) |->
                 statsMapRpcNodeToPNode(
                     rpcPods[i], [credits |-> rpcPods[i].credits], i - 1,
                     IF rpcPods[i].pubkey \in DOMAIN statsMap
                     THEN statsMap[rpcPods[i].pubkey] ELSE NoStats)])

\* the loop goes on to the next chunk without waiting for the lookups
chunkSettled_NoAwait(inflight) == TRUE

\* part_002:548, await Promise.all(...): every lookup of the chunk has settled
chunkSettled(inflight) == inflight = {}

\* part_002:559-562: the catch of one lookup
lookupFailed(call, k) == call

\* The cluster list of n pods.  Pod i has public key i and address << i >>, and the
\* credits service gives it 100 * (i % 3) credits.  With `dup` pod 2 has the
\* public key of pod 1; with `bare` the last pod has no address; with `noTs`
\* pod 1 has no last_seen_timestamp.
StatsPods(n, dup, bare, noTs) ==
    [i \in 1..n |->
        [pubkey |-> IF dup /\ i = 2 THEN 1 ELSE i,
         ip |-> IF bare /\ i = n THEN NoString ELSE << i >>,
         last_seen_timestamp |-> IF noTs /\ i = 1 THEN NoTs ELSE TsRecent,
         credits |-> 100 * (i % 3)]]

\* how the peers behave: all answer, the even or the odd addresses refuse,
\* or the peer at address 1 never answers
PeerPatterns == {"all", "evenRefuse", "oddRefuse", "firstNever"}

peerAnswer(pattern, ip) ==
    CASE pattern = "all" -> "stats"
      [] pattern = "evenRefuse" -> IF ip[1] % 2 = 0 THEN "refused" ELSE "stats"
      [] pattern = "oddRefuse" -> IF ip[1] % 2 = 1 THEN "refused" ELSE "stats"
      [] OTHER -> IF ip[1] = 1 THEN "never" ELSE "stats"

StatsInputs ==
    {[rpcPods |-> StatsPods(n, dup, bare, FALSE), peers |-> pattern, libraryTimeout |-> FALSE] :
        n \in {CHUNK_SIZE, CHUNK_SIZE + 1, 2 * CHUNK_SIZE + 1},
        dup \in BOOLEAN, bare \in BOOLEAN,
        pattern \in {"all", "evenRefuse", "oddRefuse"}}
    \cup {[rpcPods |-> StatsPods(n, FALSE, FALSE, FALSE), peers |-> "firstNever",
           libraryTimeout |-> t] : n \in {2, CHUNK_SIZE + 1}, t \in BOOLEAN}
    \cup {[rpcPods |-> StatsPods(2, FALSE, FALSE, TRUE), peers |-> "all",
           libraryTimeout |-> FALSE]}

InitStats ==
    /\ GateInit
    /\ CacheInit
    /\ minput \in StatsInputs
    /\ mout = [pc |-> "loop", i |-> 0, inflight |-> {}, started |-> {}, settled |-> {},
               statsMap |-> EmptyMap, result |-> << >>]

\* part_002:546-550: the loop takes the chunk at i and starts the lookup of
\* every pod of the chunk that has an address
StartChunk ==
    /\ mout.pc = "loop"
    /\ mout.i < Len(minput.rpcPods)
    /\ chunkSettled(mout.inflight)
    /\ LET last == IF mout.i + CHUNK_SIZE < Len(minput.rpcPods)
                   THEN mout.i + CHUNK_SIZE ELSE Len(minput.rpcPods)
           lookups == {k \in (mout.i + 1)..last : minput.rpcPods[k].ip # NoString}
       IN  mout' = [mout EXCEPT !.i = mout.i + CHUNK_SIZE,
                                !.inflight = mout.inflight \cup lookups,
                                !.started = mout.started \cup lookups]
    /\ UNCHANGED << gateVars, minput, cacheVars >>

\* part_002:557-562: the lookup of pod k settles.  Of the lookups in flight
\* the one of the first or of the last pod settles next.
SettleLookup(k) ==
    /\ mout.pc = "loop"
    /\ k \in mout.inflight
    /\ \A j \in mout.inflight : j >= k \/ \A h \in mout.inflight : h <= k
    /\ LET pod == minput.rpcPods[k]
           answer == peerAnswer(minput.peers, pod.ip)
           gone == [mout EXCEPT !.inflight = mout.inflight \ {k},
                                !.settled = mout.settled \cup {k}]
       IN  /\ answer = "never" => minput.libraryTimeout
           /\ mout' = IF answer = "stats"
                      THEN [gone EXCEPT !.statsMap =
                                assign(mout.statsMap, [key \in {pod.pubkey} |-> statsOf(pod.ip)])]
                      ELSE lookupFailed(gone, k)
    /\ UNCHANGED << gateVars, minput, cacheVars >>

\* part_002:565-590: after the last chunk the nodes are mapped and returned
ReturnNodes ==
    /\ mout.pc = "loop"
    /\ mout.i >= Len(minput.rpcPods)
    /\ chunkSettled(mout.inflight)
    /\ mout' = [mout EXCEPT !.pc = "returned",
                            !.result = statsResult(minput.rpcPods, mout.statsMap)]
    /\ UNCHANGED << gateVars, minput, cacheVars >>

NextStats ==
    \/ StartChunk
    \/ \E k \in 1..(2 * CHUNK_SIZE + 1) : SettleLookup(k)
    \/ ReturnNodes

SpecStats == InitStats /\ [][NextStats]_vars

\* the scheduler runs every callback that is ready
SpecStatsFair == SpecStats /\ WF_vars(NextStats)

\* C23: while getClusterNodes collects stats at most 20 lookups are in
\* flight, and no lookup of a chunk is in flight before every lookup of the
\* chunks before it has settled.
C23_BoundedFanOut ==
    /\ Cardinality(mout.inflight) <= 20
    /\ \A k \in mout.inflight : \A j \in mout.started :
           (j - 1) \div 20 < (k - 1) \div 20 => j \in mout.settled

C23_Witness ==
    /\ Cardinality(mout.inflight) = 20
    /\ 21 \in mout.inflight
    /\ mout.settled = 1..20

\* the node that the returned list holds for the pod at place k
nodeOfPod(k) ==
    LET at == {p \in 1..Len(mout.result) : mout.result[p].id = << "pnode_", k - 1 >>}
    IN  mout.result[CHOOSE p \in at : TRUE]

\* C24: when the getStats lookups of some pods fail, getClusterNodes still
\* returns one node for every pod of the cluster list; the node of every pod
\* whose lookup succeeded carries that peer's stats and the node of every
\* pod whose lookup failed carries the no-stats defaults.
C24_LookupFailuresIsolated ==
    mout.pc = "returned" =>
        /\ Len(mout.result) = Len(minput.rpcPods)
        /\ \A k \in 1..Len(minput.rpcPods) :
              LET pod == minput.rpcPods[k]
                  succeeded == pod.ip # NoString /\ peerAnswer(minput.peers, pod.ip) = "stats"
              IN  nodeOfPod(k).stats =
                      statsFields(IF succeeded THEN statsOf(pod.ip) ELSE NoStats)

\* C24 for cluster lists of different public keys in which every pod has a
\* last_seen_timestamp
C24_IsolatedWhenKeysDiffer ==
    (/\ mout.pc = "returned"
     /\ \A j, k \in 1..Len(minput.rpcPods) :
           /\ minput.rpcPods[k].last_seen_timestamp # NoTs
           /\ j # k => minput.rpcPods[j].pubkey # minput.rpcPods[k].pubkey)
    => /\ Len(mout.result) = Len(minput.rpcPods)
       /\ \A k \in 1..Len(minput.rpcPods) :
             LET pod == minput.rpcPods[k]
                 succeeded == pod.ip # NoString /\ peerAnswer(minput.peers, pod.ip) = "stats"
             IN  nodeOfPod(k).stats =
                     statsFields(IF succeeded THEN statsOf(pod.ip) ELSE NoStats)

\* C25: getClusterNodes returns in the end, also when one peer never answers
\* its getStats call.
C25_RefreshTerminates == <>(mout.pc = "returned")

(***************************************************************************)
(* The refresh and the read of the store side by side (SpecMerge, Spec).   *)
(***************************************************************************)
\* what getClusterNodes maps from the store when the store held nothing
\* before the refresh and returns the rows in the order they were written
readBack(rpc, podCredits, geoBatch, nowMs) ==
    LET rows == mergeOf(rpc, podCredits, geoBatch, nowMs).rows
    IN  [i \in 1..Len(rows) |-> mapRowToPNode(rows[i])]

\* C26: the list getClusterNodes reads back from the store right after a
\* refresh that wrote rows is the list the refresh returned: as many nodes,
\* in the same order, each with the same id, creditsRank and credits.
C26_CacheRoundTrip ==
    (mout.run /\ ~minput.rpc.failed) =>
        LET back == readBack(minput.rpc, minput.podCredits, minput.geoBatch, minput.nowMs)
        IN  Len(back) > 0 =>
               /\ Len(back) = Len(mout.nodes)
               /\ \A i \in 1..Len(back) :
                     /\ back[i].id = mout.nodes[i].id
                     /\ back[i].creditsRank = mout.nodes[i].creditsRank
                     /\ back[i].credits = mout.nodes[i].credits

\* a refresh has written rows into the store less than 5 minutes ago
writtenLately ==
    \E k \in DOMAIN store : now - getTime(store[k].updated_at) < 5 * 60 * 1000

\* C27: less than 5 minutes after a refresh wrote at least one row into the
\* store, a getClusterNodes call that reads the store starts no refresh: it
\* is served from the cache, whatever other rows the store still holds.
C27_NoRefreshLoop ==
    [][\A p \in Procs :
          (pc[p] \in {"idle", "done"} /\ pc'[p] = "fetch" /\ req'[p].read = "ok")
              => ~writtenLately]_vars

\* the upstream request of a call failed: no answer, or a status that is not ok
fetchFailed(call) ==
    /\ call.pc = "done"
    /\ call.upstream
    /\ call.answer = [rejected |-> TRUE] \/ ~call.answer.ok

\* C28: a fetchPodCredits or fetchRPC call whose upstream request fails
\* returns null and leaves the cache as it was, also when the cache holds an
\* entry older than CACHE_DURATION; and every call that finds no entry
\* younger than CACHE_DURATION contacts the upstream.
C28_FailuresNotCached ==
    \A c \in 1..Len(calls) :
        /\ fetchFailed(calls[c]) => calls[c].result = JsonNull /\ calls[c].kept
        /\ (~calls[c].had \/ calls[c].age >= 60 * 1000) => calls[c].upstream

C28_Witness ==
    \E c \in 1..Len(calls) :
        /\ fetchFailed(calls[c])
        /\ calls[c].had
        /\ calls[c].entry # JsonNull
        /\ calls[c].result = JsonNull
        /\ c < Len(calls)
        /\ calls[c + 1].fn = calls[c].fn
        /\ calls[c + 1].upstream

\* C29: the list ingestNodeData returns holds exactly one node per public
\* key, the nodes of the rows it upserted, and every returned node has a
\* creditsRank in 1..N (N the number of returned nodes), also when the
\* cluster list holds several entries of one public key.
C29_ReturnsWhatItPersisted ==
    (mout.run /\ mout.ingestion.upserted) =>
        LET returned == mout.ingestion.returned
            rows == mout.ingestion.rows
        IN  /\ \A i, j \in 1..Len(returned) :
                  i # j => returned[i].pubkey # returned[j].pubkey
            /\ {returned[i].pubkey : i \in 1..Len(returned)} = keysOf(rows)
            /\ Len(returned) = Len(rows)
            /\ \A i \in 1..Len(returned) : returned[i].creditsRank \in 1..Len(returned)

====
